---- MODULE Spec2Model ----
(***************************************************************************)
(* BatchPayChannel: the on-chain state-channel ledger of expensesplits.    *)
(* The contract's storage is the state, every external function is one     *)
(* action; a reverted call leaves the storage as it was and is recorded in *)
(* `last` together with the revert reason (Spec; DepositSpec follows the   *)
(* deposit of one channel).                                                *)
(* ClearNodeService: the client's session with the relay, one action per   *)
(* callback of its event loop (RelaySpec).                                 *)
(* StateChannelClient: the client's local copy of a channel, kept over a   *)
(* ClearNodeService session, one action per method call (ClientSpec).      *)
(* useExpenseStateChannel: the expenses entered over that channel and the  *)
(* balances proposed for them (ExpenseSpec).                               *)
(* YellowNetworkAdapter: the swap intents and Yellow Network channels of   *)
(* the adapter contract (YellowSpec).                                      *)
(***************************************************************************)
EXTENDS Integers, Sequences, FiniteSets, TLC

VARIABLES
    channels,      \* mapping(bytes32 => Channel): the records written so far
    userChannels,  \* mapping(address => bytes32[])
    now,           \* block.timestamp
    blockNumber,   \* block.number
    last,          \* the call executed last in this block, with its outcome
    clearNodeService,  \* the client's ClearNodeService and what it has created
    stateChannelClient, \* the client's StateChannelClient
    expenses,          \* the expense list of useExpenseStateChannel
    yellowNetworkAdapter \* the storage of YellowNetworkAdapter

contractVars == <<channels, userChannels, now, blockNumber, last>>

vars == <<channels, userChannels, now, blockNumber, last, clearNodeService,
          stateChannelClient, expenses, yellowNetworkAdapter>>

----------------------------------------------------------------------------
(* Bounds of the model *)

MaxBlocks == 2       \* blocks mined in a run
MaxNonce == 2        \* largest nonce a submitted state carries
MaxOpens == 2        \* entries a userChannels list may reach
MaxEvents == 10      \* callbacks the client's event loop runs
MaxSessionEvents == 7  \* callbacks of the session under a StateChannelClient
MaxUpdates == 2      \* largest nonce a state of the local channel carries
MaxExpenses == 2     \* expenses the list of the hook may hold
MaxIntents == 2      \* entries a userIntents list may reach
MaxPushed == 4       \* entries the participants of a Yellow channel may reach

(* Program constants *)

DISPUTE_PERIOD == 604800
CHANNEL_TIMEOUT == 2592000
MIN_PARTICIPANTS == 2
MAX_PARTICIPANTS == 50
retryAttempts == 3
MIN_LIQUIDITY == 1000000000

----------------------------------------------------------------------------
(* Values *)

Address == {"a1", "a2", "a3"}
ZeroAddress == "0x0"
\* What ECDSA.recover yields for a signature made over another digest: an
\* address unrelated to the signer's, never one of the accounts above.
UnrelatedAddress == "0x?"

ZeroId == <<>>
ZeroHash == "0x00"
StateHashes == {"h1", "h2"}

Range(s) == {s[i] : i \in 1..Len(s)}

RECURSIVE Sum(_)
Sum(b) == IF b = <<>> THEN 0 ELSE Head(b) + Sum(Tail(b))

Min(S) == CHOOSE x \in S : \A y \in S : x <= y

\* keccak256(abi.encodePacked(participants, chainId, block.timestamp,
\* block.number, msg.sender)): equal exactly when the five inputs are equal.
ChannelIdOf(participants, chainId, timestamp, number, sender) ==
    <<participants, chainId, timestamp, number, sender>>

\* keccak256(abi.encodePacked(channelId, state.stateHash, state.nonce, state.balances))
messageHash(channelId, state) ==
    <<channelId, state.stateHash, state.nonce, state.balances>>

\* A signature is the pair of its signer and the digest it was made over.
Sig(signer, digest) == [signer |-> signer, digest |-> digest]

recover(digest, sig) ==
    IF sig.digest = digest THEN sig.signer ELSE UnrelatedAddress

\* The value of channels[id] for an id never written: all fields zero.
ZeroChannel ==
    [channelId |-> ZeroId, participants |-> <<>>, totalDeposit |-> 0,
     deposits |-> [a \in Address |-> 0], nonce |-> 0, timeout |-> 0,
     disputeDeadline |-> 0, stateHash |-> ZeroHash, isOpen |-> FALSE,
     inDispute |-> FALSE, chainId |-> 0]

Channel(id) == IF id \in DOMAIN channels THEN channels[id] ELSE ZeroChannel

NoState == [channelId |-> ZeroId, stateHash |-> ZeroHash, nonce |-> 0, balances |-> <<>>]

\* What a call leaves behind.  A call that returns is recorded with its
\* arguments; a call that reverts leaves the storage as it was and yields its
\* revert reason only.
NoCall ==
    [op |-> "none", cid |-> ZeroId, caller |-> ZeroAddress, state |-> NoState,
     sigs |-> <<>>, participants |-> <<>>, value |-> 0, ok |-> FALSE,
     error |-> "", time |-> 0, pre |-> ZeroChannel]

Returned(op, cid, caller, state, sigs) ==
    [NoCall EXCEPT !.op = op, !.cid = cid, !.caller = caller, !.state = state,
                   !.sigs = sigs, !.ok = TRUE, !.time = now, !.pre = Channel(cid)]

Reverted(op, cid, error) ==
    [NoCall EXCEPT !.op = op, !.cid = cid, !.error = error, !.time = now,
                   !.pre = Channel(cid)]

Called(op, cid, caller, state, sigs, error) ==
    IF error = "" THEN Returned(op, cid, caller, state, sigs)
    ELSE Reverted(op, cid, error)

----------------------------------------------------------------------------
(* Modifiers *)

onlyParticipant(channelId, sender) == sender \in Range(Channel(channelId).participants)

channelOpen(channelId) == Channel(channelId).isOpen

notInDispute(channelId) == ~Channel(channelId).inDispute

validChannelId(channelId) == Channel(channelId).channelId # ZeroId

----------------------------------------------------------------------------
(* ClearNodeService as constructed, with no socket, promise or timer yet *)

Null == 0

ClearNodeService ==
    [ws |-> Null, messageSigner |-> FALSE,
     connection |-> [isConnected |-> FALSE, isAuthenticated |-> FALSE, jwtToken |-> FALSE],
     messageHandlers |-> << >>,
     reconnectAttempts |-> 0, reconnectTimer |-> Null, heartbeatInterval |-> FALSE,
     isReconnecting |-> FALSE, connectionState |-> "disconnected",
     \* sockets made by connect(), promises of authenticate() and of the request
     \* calls, reconnect timers set (TRUE while pending), localStorage's token
     sockets |-> <<>>, authentications |-> <<>>, requests |-> <<>>,
     reconnectTimers |-> <<>>, localStorage |-> FALSE,
     \* callbacks run so far
     events |-> 0]

(* StateChannelClient as constructed: no channel, no session, no signer.     *)
(* A field that is null or an object is the empty or the one-element list. *)

StateChannelClient ==
    [currentChannel |-> <<>>, currentSession |-> <<>>, messageSigner |-> FALSE]

(* YellowNetworkAdapter as deployed: no swap intent, no channel; the       *)
(* deployer a1 holds every role.  `last` is the call executed last, with   *)
(* its revert reason.                                                      *)

YellowNetworkAdapter ==
    [swapIntents |-> << >>, yellowChannels |-> << >>,
     userIntents |-> [a \in Address |-> <<>>], brokers |-> {"a1"},
     last |-> [op |-> "none", id |-> ZeroId, error |-> ""]]

----------------------------------------------------------------------------
Init ==
    /\ channels = << >>
    /\ userChannels = [a \in Address |-> <<>>]
    /\ now = 1
    /\ blockNumber = 1
    /\ last = NoCall
    /\ clearNodeService = ClearNodeService
    /\ stateChannelClient = StateChannelClient
    /\ expenses = <<>>
    /\ yellowNetworkAdapter = YellowNetworkAdapter

----------------------------------------------------------------------------
(* A handler's checks are its modifiers and require statements in program   *)
(* order: its failure is the reason of the first one that fails, "" when    *)
(* all pass.                                                                *)

----------------------------------------------------------------------------
(* _verifySignatures *)

\* The loop over the signatures: each recovered signer marks the first of its
\* not yet marked positions in the participant set.
RECURSIVE MarkSigned(_, _, _, _)
MarkSigned(participants, ethSignedHash, signatures, hasSigned) ==
    IF signatures = <<>> THEN hasSigned
    ELSE LET recovered == recover(ethSignedHash, Head(signatures))
             free == {j \in 1..Len(participants) :
                         recovered = participants[j] /\ ~hasSigned[j]}
         IN  MarkSigned(participants, ethSignedHash, Tail(signatures),
                        IF free = {} THEN hasSigned
                        ELSE [hasSigned EXCEPT ![Min(free)] = TRUE])

\* _verifySignatures without the final check that every participant signed.
_verifySignatures_NoDuplicateCheck(channelId, state, signatures) ==
    LET participants == Channel(channelId).participants
        ethSignedHash == messageHash(channelId, state)
    IN  IF Len(signatures) # Len(participants) THEN "Need all participant signatures"
        ELSE IF \E i \in 1..Len(signatures) :
                    recover(ethSignedHash, signatures[i]) \notin Range(participants)
             THEN "Invalid signer"
        ELSE ""

\* "" when the function returns true, "false" when it returns false, the
\* reason when one of its own require statements reverts.
_verifySignatures(channelId, state, signatures) ==
    LET participants == Channel(channelId).participants
        participantCount == Len(participants)
        ethSignedHash == messageHash(channelId, state)
        hasSigned == MarkSigned(participants, ethSignedHash, signatures,
                                [j \in 1..participantCount |-> FALSE])
    IN  IF Len(signatures) # participantCount THEN "Need all participant signatures"
        ELSE IF \E i \in 1..Len(signatures) :
                    recover(ethSignedHash, signatures[i]) \notin Range(participants)
             THEN "Invalid signer"
        ELSE IF \E j \in 1..participantCount : ~hasSigned[j] THEN "false"
        ELSE ""

\* require(_verifySignatures(...), "Invalid signatures")
SignaturesFailure(channelId, state, signatures) ==
    LET r == _verifySignatures(channelId, state, signatures)
    IN  IF r = "false" THEN "Invalid signatures" ELSE r

----------------------------------------------------------------------------
(* openChannel *)

\* The contract is taken unpaused, as constructed: pause() and unpause() are
\* the owner's and are not called, so whenNotPaused always passes.
openChannelFailure(sender, participants, chainId, value) ==
    LET N == Len(participants)
        \* the first i at which the nested loop reverts
        bad == {i \in 1..N : \/ participants[i] = ZeroAddress
                              \/ \E j \in (i + 1)..N : participants[i] = participants[j]}
    IN  IF ~(N >= MIN_PARTICIPANTS /\ N <= MAX_PARTICIPANTS)
            THEN "Invalid participant count"
        ELSE IF ~(value > 0)
            THEN "Deposit required"
        ELSE IF ~(chainId > 0)
            THEN "Invalid chain ID"
        ELSE IF bad # {}
            THEN IF participants[Min(bad)] = ZeroAddress THEN "Invalid participant"
                 ELSE "Duplicate participant"
        ELSE ""

\* EnumerableSet.add for each address in turn: appended unless already a member.
RECURSIVE AddAll(_, _)
AddAll(set, participants) ==
    IF participants = <<>> THEN set
    ELSE AddAll(IF Head(participants) \in Range(set) THEN set
                ELSE Append(set, Head(participants)),
                Tail(participants))

openChannelEffect(channel, channelId, sender, participants, chainId, value) ==
    [channel EXCEPT !.channelId = channelId,
                    !.totalDeposit = value,
                    !.deposits[sender] = value,
                    !.nonce = 0,
                    !.timeout = now + CHANNEL_TIMEOUT,
                    !.isOpen = TRUE,
                    !.chainId = chainId,
                    !.participants = AddAll(@, participants)]

openChannel(sender, participants, chainId, value) ==
    LET channelId == ChannelIdOf(participants, chainId, now, blockNumber, sender)
        error == openChannelFailure(sender, participants, chainId, value)
        channel == openChannelEffect(Channel(channelId), channelId, sender,
                                     participants, chainId, value)
    IN  \* the userChannels lists stay within MaxOpens
        /\ \A i \in 1..Len(participants) :
              participants[i] \in Address => Len(userChannels[participants[i]]) < MaxOpens
        \* the run follows one channel record: a second call returns only
        \* when it lands on the id already stored
        /\ error = "" => DOMAIN channels \subseteq {channelId}
        /\ channels' = IF error = "" THEN (channelId :> channel) @@ channels
                       ELSE channels
        /\ userChannels' =
              IF error = ""
              THEN [a \in Address |->
                      IF a \in Range(participants) THEN Append(userChannels[a], channelId)
                      ELSE userChannels[a]]
              ELSE userChannels
        /\ last' = IF error = ""
                   THEN [Returned("openChannel", channelId, sender, NoState, <<>>)
                           EXCEPT !.participants = participants, !.value = value]
                   ELSE Reverted("openChannel", ZeroId, error)
        /\ UNCHANGED <<now, blockNumber>>

----------------------------------------------------------------------------
(* updateState *)

\* updateState comparing the nonce with >= instead of >.
updateStateFailure_SameNonce(channelId, sender, newState, signatures) ==
    IF ~(validChannelId(channelId))
        THEN "Invalid channel"
    ELSE IF ~(onlyParticipant(channelId, sender))
        THEN "Not a participant"
    ELSE IF ~(channelOpen(channelId))
        THEN "Channel not open"
    ELSE IF ~(notInDispute(channelId))
        THEN "Channel in dispute"
    ELSE IF ~(newState.channelId = channelId)
        THEN "Channel ID mismatch"
    ELSE IF ~(newState.nonce >= Channel(channelId).nonce)
        THEN "Nonce must increase"
    ELSE IF ~(Len(newState.balances) = Len(Channel(channelId).participants))
        THEN "Balance array length mismatch"
    ELSE IF ~(SignaturesFailure(channelId, newState, signatures) = "")
        THEN SignaturesFailure(channelId, newState, signatures)
    ELSE IF ~(Sum(newState.balances) = 0)
        THEN "Balances must sum to zero"
    ELSE ""

\* updateState without the notInDispute modifier.
updateStateFailure_InDispute(channelId, sender, newState, signatures) ==
    IF ~(validChannelId(channelId))
        THEN "Invalid channel"
    ELSE IF ~(onlyParticipant(channelId, sender))
        THEN "Not a participant"
    ELSE IF ~(channelOpen(channelId))
        THEN "Channel not open"
    ELSE IF ~(newState.channelId = channelId)
        THEN "Channel ID mismatch"
    ELSE IF ~(newState.nonce > Channel(channelId).nonce)
        THEN "Nonce must increase"
    ELSE IF ~(Len(newState.balances) = Len(Channel(channelId).participants))
        THEN "Balance array length mismatch"
    ELSE IF ~(SignaturesFailure(channelId, newState, signatures) = "")
        THEN SignaturesFailure(channelId, newState, signatures)
    ELSE IF ~(Sum(newState.balances) = 0)
        THEN "Balances must sum to zero"
    ELSE ""

updateStateFailure(channelId, sender, newState, signatures) ==
    IF ~(validChannelId(channelId))
        THEN "Invalid channel"
    ELSE IF ~(onlyParticipant(channelId, sender))
        THEN "Not a participant"
    ELSE IF ~(channelOpen(channelId))
        THEN "Channel not open"
    ELSE IF ~(notInDispute(channelId))
        THEN "Channel in dispute"
    ELSE IF ~(newState.channelId = channelId)
        THEN "Channel ID mismatch"
    ELSE IF ~(newState.nonce > Channel(channelId).nonce)
        THEN "Nonce must increase"
    ELSE IF ~(Len(newState.balances) = Len(Channel(channelId).participants))
        THEN "Balance array length mismatch"
    ELSE IF ~(SignaturesFailure(channelId, newState, signatures) = "")
        THEN SignaturesFailure(channelId, newState, signatures)
    ELSE IF ~(Sum(newState.balances) = 0)
        THEN "Balances must sum to zero"
    ELSE ""

\* updateState storing the stateHash but not the nonce.
updateStateEffect_KeepsNonce(channel, newState) ==
    [channel EXCEPT !.stateHash = newState.stateHash]

updateStateEffect(channel, newState) ==
    [channel EXCEPT !.stateHash = newState.stateHash,
                    !.nonce = newState.nonce]

updateState(channelId, sender, newState, signatures) ==
    LET error == updateStateFailure(channelId, sender, newState, signatures)
    IN  /\ channels' = IF error = ""
                       THEN [channels EXCEPT ![channelId] = updateStateEffect(@, newState)]
                       ELSE channels
        /\ last' = Called("updateState", channelId, sender, newState, signatures, error)
        /\ UNCHANGED <<userChannels, now, blockNumber>>

----------------------------------------------------------------------------
(* closeChannel *)

\* closeChannel without the wait for the dispute deadline.
closeChannelFailure_NoDisputeWait(channelId, sender, finalState, signatures) ==
    IF ~(validChannelId(channelId))
        THEN "Invalid channel"
    ELSE IF ~(onlyParticipant(channelId, sender))
        THEN "Not a participant"
    ELSE IF ~(channelOpen(channelId))
        THEN "Channel not open"
    ELSE IF ~(SignaturesFailure(channelId, finalState, signatures) = "")
        THEN SignaturesFailure(channelId, finalState, signatures)
    ELSE IF ~(finalState.nonce >= Channel(channelId).nonce)
        THEN "Cannot use old state"
    ELSE ""

closeChannelFailure(channelId, sender, finalState, signatures) ==
    IF ~(validChannelId(channelId))
        THEN "Invalid channel"
    ELSE IF ~(onlyParticipant(channelId, sender))
        THEN "Not a participant"
    ELSE IF ~(channelOpen(channelId))
        THEN "Channel not open"
    ELSE IF ~(Channel(channelId).inDispute => now >= Channel(channelId).disputeDeadline)
        THEN "Dispute period not over"
    ELSE IF ~(SignaturesFailure(channelId, finalState, signatures) = "")
        THEN SignaturesFailure(channelId, finalState, signatures)
    ELSE IF ~(finalState.nonce >= Channel(channelId).nonce)
        THEN "Cannot use old state"
    ELSE ""

closeChannelEffect(channel, finalState) ==
    [channel EXCEPT !.isOpen = FALSE,
                    !.stateHash = finalState.stateHash,
                    !.nonce = finalState.nonce]

closeChannel(channelId, sender, finalState, signatures) ==
    LET error == closeChannelFailure(channelId, sender, finalState, signatures)
    IN  /\ channels' = IF error = ""
                       THEN [channels EXCEPT ![channelId] = closeChannelEffect(@, finalState)]
                       ELSE channels
        /\ last' = Called("closeChannel", channelId, sender, finalState, signatures, error)
        /\ UNCHANGED <<userChannels, now, blockNumber>>

----------------------------------------------------------------------------
(* challengeState *)

\* challengeState comparing the nonce with >= instead of >.
challengeStateFailure_SameNonce(channelId, sender, higherNonceState, signatures) ==
    IF ~(validChannelId(channelId))
        THEN "Invalid channel"
    ELSE IF ~(onlyParticipant(channelId, sender))
        THEN "Not a participant"
    ELSE IF ~(channelOpen(channelId))
        THEN "Channel not open"
    ELSE IF ~(higherNonceState.nonce >= Channel(channelId).nonce)
        THEN "Must provide higher nonce"
    ELSE IF ~(SignaturesFailure(channelId, higherNonceState, signatures) = "")
        THEN SignaturesFailure(channelId, higherNonceState, signatures)
    ELSE ""

challengeStateFailure(channelId, sender, higherNonceState, signatures) ==
    IF ~(validChannelId(channelId))
        THEN "Invalid channel"
    ELSE IF ~(onlyParticipant(channelId, sender))
        THEN "Not a participant"
    ELSE IF ~(channelOpen(channelId))
        THEN "Channel not open"
    ELSE IF ~(higherNonceState.nonce > Channel(channelId).nonce)
        THEN "Must provide higher nonce"
    ELSE IF ~(SignaturesFailure(channelId, higherNonceState, signatures) = "")
        THEN SignaturesFailure(channelId, higherNonceState, signatures)
    ELSE ""

\* challengeState setting the deadline only when the dispute starts.
challengeStateEffect_KeepsDeadline(channel, higherNonceState) ==
    [channel EXCEPT !.stateHash = higherNonceState.stateHash,
                    !.nonce = higherNonceState.nonce,
                    !.inDispute = TRUE,
                    !.disputeDeadline = IF channel.inDispute THEN @
                                        ELSE now + DISPUTE_PERIOD]

challengeStateEffect(channel, higherNonceState) ==
    [channel EXCEPT !.stateHash = higherNonceState.stateHash,
                    !.nonce = higherNonceState.nonce,
                    !.inDispute = TRUE,
                    !.disputeDeadline = now + DISPUTE_PERIOD]

challengeState(channelId, sender, higherNonceState, signatures) ==
    LET error == challengeStateFailure(channelId, sender, higherNonceState, signatures)
    IN  /\ channels' = IF error = ""
                       THEN [channels EXCEPT ![channelId] =
                                 challengeStateEffect(@, higherNonceState)]
                       ELSE channels
        /\ last' = Called("challengeState", channelId, sender, higherNonceState,
                          signatures, error)
        /\ UNCHANGED <<userChannels, now, blockNumber>>

----------------------------------------------------------------------------
(* forceClose *)

\* forceClose comparing the time with > instead of >=.
forceCloseFailure_AfterTimeout(channelId, sender) ==
    IF ~(validChannelId(channelId))
        THEN "Invalid channel"
    ELSE IF ~(onlyParticipant(channelId, sender))
        THEN "Not a participant"
    ELSE IF ~(now > Channel(channelId).timeout)
        THEN "Timeout not reached"
    ELSE ""

forceCloseFailure(channelId, sender) ==
    IF ~(validChannelId(channelId))
        THEN "Invalid channel"
    ELSE IF ~(onlyParticipant(channelId, sender))
        THEN "Not a participant"
    ELSE IF ~(now >= Channel(channelId).timeout)
        THEN "Timeout not reached"
    ELSE ""

forceCloseEffect(channel) == [channel EXCEPT !.isOpen = FALSE]

forceClose(channelId, sender) ==
    LET error == forceCloseFailure(channelId, sender)
    IN  /\ channels' = IF error = ""
                       THEN [channels EXCEPT ![channelId] = forceCloseEffect(@)]
                       ELSE channels
        /\ last' = Called("forceClose", channelId, sender, NoState, <<>>, error)
        /\ UNCHANGED <<userChannels, now, blockNumber>>

----------------------------------------------------------------------------
(* emergencyWithdraw *)

\* received: whether the call that sends the ether to msg.sender succeeds,
\* which is up to the code at that address.
emergencyWithdrawFailure(channelId, sender, received) ==
    IF ~(validChannelId(channelId))
        THEN "Invalid channel"
    ELSE IF ~(onlyParticipant(channelId, sender))
        THEN "Not a participant"
    ELSE IF ~(~Channel(channelId).isOpen)
        THEN "Channel still open"
    ELSE IF ~(Channel(channelId).deposits[sender] > 0)
        THEN "No deposit to withdraw"
    ELSE IF ~received
        THEN "Transfer failed"
    ELSE ""

emergencyWithdrawEffect(channel, sender) == [channel EXCEPT !.deposits[sender] = 0]

emergencyWithdraw(channelId, sender, received) ==
    LET error == emergencyWithdrawFailure(channelId, sender, received)
    IN  /\ channels' = IF error = ""
                       THEN [channels EXCEPT ![channelId] = emergencyWithdrawEffect(@, sender)]
                       ELSE channels
        /\ last' = Called("emergencyWithdraw", channelId, sender, NoState, <<>>, error)
        /\ UNCHANGED <<userChannels, now, blockNumber>>

----------------------------------------------------------------------------
(* The chain: the next block is mined, with a later timestamp. *)

TickSteps == {1, DISPUTE_PERIOD, CHANNEL_TIMEOUT}

Tick(step) ==
    /\ blockNumber < MaxBlocks
    /\ blockNumber' = blockNumber + 1
    /\ now' = now + step
    /\ last' = NoCall
    /\ UNCHANGED <<channels, userChannels>>

----------------------------------------------------------------------------
(* The calls made: what the callers of the contract submit. *)

\* A list of MAX_PARTICIPANTS + 1 entries.
TooMany == [i \in 1..(MAX_PARTICIPANTS + 1) |-> IF i % 2 = 1 THEN "a1" ELSE "a2"]

ParticipantLists ==
    {<<"a1", "a2">>, <<"a1">>, <<"a1", "a1">>, <<ZeroAddress, "a2">>, TooMany}

Openers == {"a1"}

OpenCall(sender, participants, chainId, value) ==
    [sender |-> sender, participants |-> participants, chainId |-> chainId, value |-> value]

\* openChannel with well-formed arguments, and with one defective argument:
\* the participant list, the chain id (0) or the deposit (0).
OpenCalls ==
    {OpenCall(s, p, 1, 1) : s \in Openers, p \in ParticipantLists}
    \cup {OpenCall(s, <<"a1", "a2">>, 0, 1) : s \in Openers}
    \cup {OpenCall(s, <<"a1", "a2">>, 1, 0) : s \in Openers}

\* An id no openChannel call produces.
UnknownId == ChannelIdOf(<<>>, 0, 0, 0, ZeroAddress)
ChannelIds == DOMAIN channels \cup {UnknownId}

Settled(n) == [i \in 1..n |-> IF i = 1 THEN -1 ELSE IF i = 2 THEN 1 ELSE 0]
Inflated(n) == [i \in 1..n |-> 1]
TooLong(n) == [i \in 1..(n + 1) |-> 0]

ChannelState(channelId, stateHash, nonce, balances) ==
    [channelId |-> channelId, stateHash |-> stateHash, nonce |-> nonce,
     balances |-> balances]

\* Every participant's signature over the state, in the participants' order.
AllSigned(channelId, state) ==
    LET participants == Channel(channelId).participants
    IN  [i \in 1..Len(participants) |-> Sig(participants[i], messageHash(channelId, state))]

Replace(seq, i, x) == [seq EXCEPT ![i] = x]
Remove(seq, i) == SubSeq(seq, 1, i - 1) \o SubSeq(seq, i + 1, Len(seq))
Reverse(seq) == [i \in 1..Len(seq) |-> seq[Len(seq) + 1 - i]]

\* Signature sets that are not one signature of each participant over the state.
DefectiveSignatures(channelId, state) ==
    LET participants == Channel(channelId).participants
        digest == messageHash(channelId, state)
        other == messageHash(channelId, [state EXCEPT !.nonce = @ + 1])
        all == AllSigned(channelId, state)
        I == 1..Len(participants)
    IN  {Remove(all, i) : i \in I}
        \cup {Replace(all, i, all[j]) : i \in {i \in I : i > 1}, j \in {1}}
        \cup {Replace(all, 1, Sig(x, digest)) : x \in Address \ Range(participants)}
        \cup {Replace(all, i, Sig(participants[i], other)) : i \in {i \in I : i = 1}}
        \cup {Append(all, Sig(x, digest)) : x \in {participants[i] : i \in {i \in I : i = 1}}}

Call(caller, state, sigs) == [caller |-> caller, state |-> state, sigs |-> sigs]

Calls(channelId) ==
    LET participants == Channel(channelId).participants
        n == Len(participants)
        member == IF n = 0 THEN ZeroAddress ELSE participants[1]
        agreed(k) == ChannelState(channelId, "h1", k, Settled(n))
        Nonces == 0..MaxNonce
        next == Min({Channel(channelId).nonce + 1, MaxNonce})
    IN  IF n = 0 THEN {Call("a1", agreed(1), <<>>)} ELSE
        \* fully signed states, submitted by a participant
        {Call(member, st, AllSigned(channelId, st)) :
            st \in {agreed(k) : k \in Nonces}
                \cup {ChannelState(channelId, h, next, Settled(n)) : h \in StateHashes}}
        \* the next state with defective balances
        \cup {Call(member, st, AllSigned(channelId, st)) :
                 st \in {ChannelState(channelId, "h1", next, b) :
                            b \in {Inflated(n), TooLong(n)}}}
        \* the next state, in another order of the signatures, or by another caller
        \cup {Call(member, agreed(next), Reverse(AllSigned(channelId, agreed(next))))}
        \cup {Call(c, agreed(next), AllSigned(channelId, agreed(next))) : c \in Address \ {member}}
        \* the next state naming another channel
        \cup {Call(member, st, AllSigned(channelId, st)) :
                 st \in {ChannelState(UnknownId, "h1", next, Settled(n))}}
        \* the next state with a defective signature set
        \cup {Call(member, agreed(next), sigs) :
                 sigs \in DefectiveSignatures(channelId, agreed(next))}

Next ==
    \/ \E c \in OpenCalls :
          openChannel(c.sender, c.participants, c.chainId, c.value)
          /\ UNCHANGED <<clearNodeService, stateChannelClient, expenses, yellowNetworkAdapter>>
    \/ \E channelId \in ChannelIds : \E c \in Calls(channelId) :
          updateState(channelId, c.caller, c.state, c.sigs)
          /\ UNCHANGED <<clearNodeService, stateChannelClient, expenses, yellowNetworkAdapter>>
    \/ \E channelId \in ChannelIds : \E c \in Calls(channelId) :
          closeChannel(channelId, c.caller, c.state, c.sigs)
          /\ UNCHANGED <<clearNodeService, stateChannelClient, expenses, yellowNetworkAdapter>>
    \/ \E channelId \in ChannelIds : \E c \in Calls(channelId) :
          challengeState(channelId, c.caller, c.state, c.sigs)
          /\ UNCHANGED <<clearNodeService, stateChannelClient, expenses, yellowNetworkAdapter>>
    \/ \E channelId \in ChannelIds, sender \in Address :
          forceClose(channelId, sender)
          /\ UNCHANGED <<clearNodeService, stateChannelClient, expenses, yellowNetworkAdapter>>
    \/ \E channelId \in ChannelIds, sender \in Address, received \in BOOLEAN :
          emergencyWithdraw(channelId, sender, received)
          /\ UNCHANGED <<clearNodeService, stateChannelClient, expenses, yellowNetworkAdapter>>
    \/ \E step \in TickSteps : Tick(step)
          /\ UNCHANGED <<clearNodeService, stateChannelClient, expenses, yellowNetworkAdapter>>

Spec == Init /\ [][Next]_vars

----------------------------------------------------------------------------
(***************************************************************************)
(* ClearNodeService: the client's session with the relay.  The object's    *)
(* fields and the runtime objects it creates (sockets, promises, timers,   *)
(* the localStorage entry) are the fields of clearNodeService.  Every      *)
(* callback of the event loop is one action: a socket event, a timer, a    *)
(* call made by the application.  A continuation after an await on a       *)
(* promise that another callback settles runs with that callback, and the *)
(* awaits on building and signing a message return at once; how long a     *)
(* timer or the relay takes is left open, so a timer fires at any moment   *)
(* while it is pending.                                                    *)
(***************************************************************************)

Busy == {"connecting", "connected", "authenticating", "authenticated"}

Set(handlers, key, handler) == (key :> handler) @@ handlers

Delete(handlers, key) ==
    IF DOMAIN handlers \subseteq {key} THEN << >>
    ELSE [k \in DOMAIN handlers \ {key} |-> handlers[k]]

\* The handlers registered in messageHandlers: the closure of an
\* authenticate() call, the one of connectWithJWT, the one of a request.
AuthHandler(a) == [of |-> "authenticate", id |-> a]
JWTHandler == [of |-> "connectWithJWT", id |-> Null]
RequestHandler(r) == [of |-> "request", id |-> r]

\* new WebSocket(endpoint) inside connect(): the socket, the promise connect()
\* returns, whether connectWithJWT awaits it, the connection timeout, and the
\* authentication messages and the state updates sent on it.
NewSocket(awaited) ==
    [readyState |-> "CONNECTING", failing |-> FALSE, promise |-> "pending",
     awaited |-> awaited, timeout |-> TRUE, sent |-> {}, updates |-> {}]

\* WebSocket.send throws on a socket that is still CONNECTING; on a closing or
\* closed socket it drops the data.
SendThrows(n) == n.ws # Null /\ n.sockets[n.ws].readyState = "CONNECTING"

Delivers(n) == n.ws # Null /\ n.sockets[n.ws].readyState = "OPEN"

\* this.ws.send(data) of an authentication message that does not throw.
Send(n, data) ==
    IF Delivers(n) THEN [n EXCEPT !.sockets[n.ws].sent = @ \cup {data}] ELSE n

handleReconnect(n) ==
    IF n.isReconnecting THEN n
    ELSE IF n.reconnectAttempts < retryAttempts
        THEN [n EXCEPT !.isReconnecting = TRUE,
                       !.reconnectAttempts = @ + 1,
                       !.reconnectTimers = Append(@, TRUE),
                       !.reconnectTimer = Len(n.reconnectTimers) + 1]
    ELSE [n EXCEPT !.connection.isConnected = FALSE,
                   !.connection.isAuthenticated = FALSE,
                   !.connectionState = "disconnected"]

\* connectWithJWT after its await of connect() has returned.
connectWithJWT_Connected(n) ==
    LET m == IF n.localStorage /\ n.ws # Null
             THEN IF SendThrows(n)
                  THEN [n EXCEPT !.connectionState = "connected"]
                  ELSE Send([n EXCEPT !.connectionState = "authenticating",
                                      !.messageHandlers = Set(@, "auth", JWTHandler)],
                            "auth_verify with jwt")
             ELSE n
    IN  [m EXCEPT !.isReconnecting = FALSE]

\* connectWithJWT after its await of connect() has thrown.
connectWithJWT_Failed(n) ==
    [handleReconnect([n EXCEPT !.connectionState = "disconnected"])
        EXCEPT !.isReconnecting = FALSE]

\* resolve() and reject() of the promise connect() returned for socket s: the
\* first of them settles it, and connectWithJWT goes on if it awaits it.
resolveConnect(n, s) ==
    IF n.sockets[s].promise # "pending" THEN n
    ELSE LET m == [n EXCEPT !.sockets[s].promise = "resolved"]
         IN  IF n.sockets[s].awaited THEN connectWithJWT_Connected(m) ELSE m

rejectConnect(n, s) ==
    IF n.sockets[s].promise # "pending" THEN n
    ELSE LET m == [n EXCEPT !.sockets[s].promise = "rejected"]
         IN  IF n.sockets[s].awaited THEN connectWithJWT_Failed(m) ELSE m

connect(n, awaited) ==
    IF n.connectionState \in Busy THEN n
    ELSE [n EXCEPT !.connectionState = "connecting",
                   !.isReconnecting = FALSE,
                   !.sockets = Append(@, NewSocket(awaited)),
                   !.ws = Len(n.sockets) + 1]

connectWithJWT(n) ==
    IF n.connectionState \in Busy THEN connectWithJWT_Connected(n)
    ELSE connect(n, TRUE)

onopen(n, s) ==
    resolveConnect([n EXCEPT !.connectionState = "connected",
                             !.connection.isConnected = TRUE,
                             !.reconnectAttempts = 0,
                             !.heartbeatInterval = TRUE], s)

onerror(n, s) ==
    rejectConnect([n EXCEPT !.connectionState = "disconnected",
                            !.connection.isConnected = FALSE,
                            !.connection.isAuthenticated = FALSE], s)

onclose(n, code) ==
    LET m == [n EXCEPT !.connectionState = "disconnected",
                       !.connection.isConnected = FALSE,
                       !.connection.isAuthenticated = FALSE,
                       !.heartbeatInterval = FALSE]
    IN  IF code # 1000 /\ ~m.isReconnecting THEN handleReconnect(m) ELSE m

\* setTimeout(..., config.timeout) of the connect() that made socket s.
connectTimeout(n, s) ==
    IF n.connectionState = "connecting"
    THEN rejectConnect([n EXCEPT !.connectionState = "disconnected"], s)
    ELSE n

\* reject() of the promise of authenticate() call a.
rejectAuth(n, a) ==
    IF n.authentications[a].promise # "pending" THEN n
    ELSE [n EXCEPT !.authentications[a].promise = "rejected"]

\* The wrapped resolve() of authenticate() call a, which clears its timeout.
resolveAuth(n, a) ==
    [n EXCEPT !.authentications[a].timeout = FALSE,
              !.authentications[a].promise =
                  IF @ = "pending" THEN "resolved" ELSE @]

\* authHandler of authenticate() call a.
authHandler(n, a, message) ==
    IF message.method = "auth_challenge"
        THEN IF SendThrows(n)
             THEN rejectAuth([n EXCEPT !.messageHandlers = Delete(@, "auth")], a)
             ELSE Send(n, "auth_verify")
    ELSE IF message.method \in {"auth_verify", "auth_success"}
        THEN IF message.success
             THEN resolveAuth(
                    [n EXCEPT !.connectionState = "authenticated",
                              !.connection.isAuthenticated = TRUE,
                              !.connection.jwtToken = @ \/ message.jwtToken,
                              !.localStorage = @ \/ message.jwtToken,
                              !.messageHandlers = Delete(@, "auth")], a)
             ELSE rejectAuth([n EXCEPT !.connectionState = "connected",
                                       !.messageHandlers = Delete(@, "auth")], a)
    ELSE IF message.method = "error"
        THEN rejectAuth([n EXCEPT !.messageHandlers = Delete(@, "auth")], a)
    ELSE n

\* A resumption handler that takes no verify as a confirmation.
jwtHandler_Unconfirmed(n, message) ==
    IF message.method \in {"auth_verify", "auth_success"}
    THEN [n EXCEPT !.connectionState = "connected",
                   !.messageHandlers = Delete(@, "auth")]
    ELSE n

\* The handler connectWithJWT registers under "auth".
jwtHandler(n, message) ==
    IF message.method \in {"auth_verify", "auth_success"}
    THEN IF message.success
         THEN [n EXCEPT !.connectionState = "authenticated",
                        !.connection.isAuthenticated = TRUE,
                        !.messageHandlers = Delete(@, "auth")]
         ELSE [n EXCEPT !.connectionState = "connected",
                        !.messageHandlers = Delete(@, "auth")]
    ELSE n

\* The handler of getChannels / getLedgerBalances call r, run on a message of
\* its method: the call resolves with the message's result.
requestHandler(n, r, message) ==
    [n EXCEPT !.messageHandlers = Delete(@, message.method),
              !.requests[r].promise = IF @ = "pending" THEN "resolved" ELSE @,
              !.requests[r].result = IF n.requests[r].promise = "pending"
                                     THEN message.id ELSE @]

\* The handler handleMessage passes the message to: the one under "auth" if
\* there is one, else the one under the message's method, else none (the
\* message is logged).
NoHandler == [of |-> "none", id |-> Null]

Handler(n, message) ==
    IF "auth" \in DOMAIN n.messageHandlers THEN n.messageHandlers["auth"]
    ELSE IF message.method \in DOMAIN n.messageHandlers
        THEN n.messageHandlers[message.method]
    ELSE NoHandler

handleMessage(n, message) ==
    LET handler == Handler(n, message)
    IN  IF handler.of = "authenticate" THEN authHandler(n, handler.id, message)
        ELSE IF handler.of = "connectWithJWT" THEN jwtHandler(n, message)
        ELSE IF handler.of = "request" THEN requestHandler(n, handler.id, message)
        ELSE n

authenticate(n) ==
    IF n.ws = Null \/ n.connectionState # "connected" THEN n
    ELSE LET a == Len(n.authentications) + 1
             m == [n EXCEPT !.connectionState = "authenticating",
                            !.messageSigner = TRUE,
                            !.authentications =
                                Append(@, [promise |-> "pending", timeout |-> TRUE]),
                            !.messageHandlers = Set(@, "auth", AuthHandler(a))]
         IN  IF SendThrows(m)
             THEN rejectAuth([m EXCEPT !.messageHandlers = Delete(@, "auth")], a)
             ELSE Send(m, "auth_request")

\* The authentication timeout falling back to an authenticated session.
authTimeout_Fallback(n, a) ==
    resolveAuth([n EXCEPT !.messageHandlers = Delete(@, "auth"),
                          !.connectionState = "authenticated",
                          !.connection.isAuthenticated = TRUE], a)

\* The setTimeout(..., 15000) of authenticate() call a.
authTimeout(n, a) ==
    rejectAuth([n EXCEPT !.messageHandlers = Delete(@, "auth"),
                         !.connectionState = "connected"], a)

\* getChannels ("get_channels") and getLedgerBalances ("get_ledger_balances").
request(n, method) ==
    IF ~n.messageSigner \/ ~n.connection.isAuthenticated THEN n
    ELSE LET r == Len(n.requests) + 1
             m == [n EXCEPT !.messageHandlers = Set(@, method, RequestHandler(r)),
                            !.requests =
                                Append(@, [method |-> method, promise |-> "pending",
                                           socket |-> IF Delivers(n) THEN n.ws ELSE Null,
                                           answered |-> FALSE, result |-> Null])]
         IN  IF SendThrows(n)
             THEN [m EXCEPT !.messageHandlers = Delete(@, method),
                            !.requests[r].promise = "rejected"]
             ELSE m

\* WebSocket.close(1000, ...): an open socket closes, a connecting one fails.
close(socket) ==
    IF socket.readyState = "CONNECTING"
        THEN [socket EXCEPT !.readyState = "CLOSING", !.failing = TRUE]
    ELSE IF socket.readyState = "OPEN"
        THEN [socket EXCEPT !.readyState = "CLOSING"]
    ELSE socket

disconnect(n) ==
    [n EXCEPT !.connectionState = "disconnected",
              !.isReconnecting = FALSE,
              !.reconnectTimers = IF n.reconnectTimer # Null
                                  THEN [@ EXCEPT ![n.reconnectTimer] = FALSE] ELSE @,
              !.reconnectTimer = Null,
              !.heartbeatInterval = FALSE,
              !.sockets = IF n.ws # Null THEN [@ EXCEPT ![n.ws] = close(@)] ELSE @,
              !.ws = Null,
              !.connection = [isConnected |-> FALSE, isAuthenticated |-> FALSE,
                              jwtToken |-> FALSE],
              !.reconnectAttempts = 0]

\* The setInterval callback of setupHeartbeat.
heartbeat(n) ==
    IF Delivers(n) THEN n ELSE [n EXCEPT !.heartbeatInterval = FALSE]

----------------------------------------------------------------------------
(* The event loop: one callback at a time. *)

Sockets == 1..Len(clearNodeService.sockets)

\* What the relay sends on socket s: the messages of the authentication
\* exchange, an error, and the response to a request it received on s and has
\* not answered yet.
Message(method, success, jwtToken, id) ==
    [method |-> method, success |-> success, jwtToken |-> jwtToken, id |-> id]

Messages(s) ==
    {Message("auth_challenge", TRUE, FALSE, Null),
     Message("auth_verify", TRUE, TRUE, Null),
     Message("auth_verify", FALSE, FALSE, Null),
     Message("error", FALSE, FALSE, Null)}
    \cup {Message(clearNodeService.requests[r].method, TRUE, FALSE, r) :
            r \in {r \in 1..Len(clearNodeService.requests) :
                     /\ clearNodeService.requests[r].socket = s
                     /\ ~clearNodeService.requests[r].answered}}

\* The service as a callback leaves it: one more event has run, unless the
\* callback changed nothing.
Ran(n) == IF n = clearNodeService THEN n ELSE [n EXCEPT !.events = @ + 1]

Connect ==
    /\ clearNodeService.events < MaxEvents
    /\ clearNodeService' = Ran(connect(clearNodeService, FALSE))
    /\ UNCHANGED <<contractVars, stateChannelClient, expenses, yellowNetworkAdapter>>

SocketOpens(s) ==
    /\ clearNodeService.events < MaxEvents
    /\ clearNodeService.sockets[s].readyState = "CONNECTING"
    /\ ~clearNodeService.sockets[s].failing
    /\ clearNodeService' =
          Ran(onopen([clearNodeService EXCEPT !.sockets[s].readyState = "OPEN"], s))
    /\ UNCHANGED <<contractVars, stateChannelClient, expenses, yellowNetworkAdapter>>

\* The connection fails: an error event, then a close event with code 1006.
SocketFails(s) ==
    /\ clearNodeService.events < MaxEvents
    /\ \/ clearNodeService.sockets[s].readyState \in {"CONNECTING", "OPEN"}
       \/ clearNodeService.sockets[s].failing
    /\ clearNodeService.sockets[s].readyState # "CLOSED"
    /\ clearNodeService' =
          Ran(onclose(onerror([clearNodeService EXCEPT
                                  !.sockets[s].readyState = "CLOSED"], s), 1006))
    /\ UNCHANGED <<contractVars, stateChannelClient, expenses, yellowNetworkAdapter>>

\* The connection closes without an error event.
SocketCloses(s, code) ==
    /\ clearNodeService.events < MaxEvents
    /\ clearNodeService.sockets[s].readyState \in {"OPEN", "CLOSING"}
    /\ ~clearNodeService.sockets[s].failing
    /\ clearNodeService' =
          Ran(onclose([clearNodeService EXCEPT !.sockets[s].readyState = "CLOSED"], code))
    /\ UNCHANGED <<contractVars, stateChannelClient, expenses, yellowNetworkAdapter>>

SocketMessage(s, message) ==
    /\ clearNodeService.events < MaxEvents
    /\ clearNodeService.sockets[s].readyState = "OPEN"
    /\ clearNodeService' =
          Ran(handleMessage(
                 IF message.id # Null
                 THEN [clearNodeService EXCEPT !.requests[message.id].answered = TRUE]
                 ELSE clearNodeService, message))
    /\ UNCHANGED <<contractVars, stateChannelClient, expenses, yellowNetworkAdapter>>

ConnectTimeout(s) ==
    /\ clearNodeService.events < MaxEvents
    /\ clearNodeService.sockets[s].timeout
    /\ clearNodeService' =
          Ran(connectTimeout([clearNodeService EXCEPT !.sockets[s].timeout = FALSE], s))
    /\ UNCHANGED <<contractVars, stateChannelClient, expenses, yellowNetworkAdapter>>

ReconnectTimer(t) ==
    /\ clearNodeService.events < MaxEvents
    /\ clearNodeService.reconnectTimers[t]
    /\ clearNodeService' =
          Ran(connectWithJWT([clearNodeService EXCEPT !.reconnectTimers[t] = FALSE]))
    /\ UNCHANGED <<contractVars, stateChannelClient, expenses, yellowNetworkAdapter>>

Authenticate ==
    /\ clearNodeService.events < MaxEvents
    /\ clearNodeService' = Ran(authenticate(clearNodeService))
    /\ UNCHANGED <<contractVars, stateChannelClient, expenses, yellowNetworkAdapter>>

AuthTimeout(a) ==
    /\ clearNodeService.events < MaxEvents
    /\ clearNodeService.authentications[a].timeout
    /\ clearNodeService' =
          Ran(authTimeout([clearNodeService EXCEPT
                              !.authentications[a].timeout = FALSE], a))
    /\ UNCHANGED <<contractVars, stateChannelClient, expenses, yellowNetworkAdapter>>

Request(method) ==
    /\ clearNodeService.events < MaxEvents
    /\ clearNodeService' = Ran(request(clearNodeService, method))
    /\ UNCHANGED <<contractVars, stateChannelClient, expenses, yellowNetworkAdapter>>

Disconnect ==
    /\ clearNodeService.events < MaxEvents
    /\ clearNodeService' = Ran(disconnect(clearNodeService))
    /\ UNCHANGED <<contractVars, stateChannelClient, expenses, yellowNetworkAdapter>>

Heartbeat ==
    /\ clearNodeService.events < MaxEvents
    /\ clearNodeService.heartbeatInterval
    /\ clearNodeService' = Ran(heartbeat(clearNodeService))
    /\ UNCHANGED <<contractVars, stateChannelClient, expenses, yellowNetworkAdapter>>

RelayNext ==
    \/ Connect
    \/ \E s \in Sockets : SocketOpens(s)
    \/ \E s \in Sockets : SocketFails(s)
    \/ \E s \in Sockets, code \in {1000, 1006} : SocketCloses(s, code)
    \/ \E s \in Sockets : \E message \in Messages(s) : SocketMessage(s, message)
    \/ \E s \in Sockets : ConnectTimeout(s)
    \/ \E t \in 1..Len(clearNodeService.reconnectTimers) : ReconnectTimer(t)
    \/ Authenticate
    \/ \E a \in 1..Len(clearNodeService.authentications) : AuthTimeout(a)
    \/ \E method \in {"get_channels", "get_ledger_balances"} : Request(method)
    \/ Disconnect
    \/ Heartbeat

RelaySpec == Init /\ [][RelayNext]_vars

----------------------------------------------------------------------------
(***************************************************************************)
(* StateChannelClient: the local channel and the calls that change it.  A  *)
(* method is one action, from its guard to its return: the await on the    *)
(* session's send returns within the call, and a call that throws leaves   *)
(* the client as it was.  Date.now() is left out of the generated ids and  *)
(* hashes.                                                                 *)
(***************************************************************************)

\* Array.prototype.sort() on addresses: the default order of strings.
AddressOrder == <<"a1", "a2", "a3">>

sort(participants) ==
    LET listed == {i \in 1..Len(AddressOrder) : AddressOrder[i] \in Range(participants)}
        RECURSIVE Ascending(_)
        Ascending(S) ==
            IF S = {} THEN <<>>
            ELSE LET i == Min(S)
                     n == Cardinality({j \in 1..Len(participants) :
                                          participants[j] = AddressOrder[i]})
                 IN  [k \in 1..n |-> AddressOrder[i]] \o Ascending(S \ {i})
    IN  Ascending(listed)

generateChannelId(participants) == <<"0x", sort(participants)>>

generateStateHash(balances) == <<"0x", balances>>

\* createAppSession and sendStateUpdate of ClearNodeService: the message is
\* signed and sent on the session's socket, if there is one.
createAppSessionFailure(n) ==
    IF ~n.messageSigner \/ ~n.connection.isAuthenticated THEN "Not authenticated"
    ELSE IF SendThrows(n) THEN "Failed to create app session"
    ELSE ""

sendStateUpdateFailure(n) ==
    IF ~n.messageSigner \/ ~n.connection.isAuthenticated THEN "Not authenticated"
    ELSE IF SendThrows(n) THEN "Failed to send state update"
    ELSE ""

sendStateUpdate(n, stateUpdate) ==
    IF sendStateUpdateFailure(n) = "" /\ Delivers(n)
    THEN [n EXCEPT !.sockets[n.ws].updates = @ \cup {stateUpdate}]
    ELSE n

setMessageSigner(c) == [c EXCEPT !.messageSigner = TRUE]

createChannelFailure(c, n) ==
    IF ~c.messageSigner THEN "Message signer not set"
    ELSE createAppSessionFailure(n)

createChannel(c, n, participants, initialAllocations) ==
    LET error == createChannelFailure(c, n)
        \* generateChannelId has sorted the caller's array
        sorted == sort(participants)
        channelId == generateChannelId(participants)
    IN  IF error # "" THEN c
        ELSE [c EXCEPT
                !.currentSession =
                    <<[sessionId |-> "session", channelId |-> channelId,
                       participants |-> sorted, allocations |-> initialAllocations,
                       isActive |-> TRUE]>>,
                !.currentChannel =
                    <<[channelId |-> channelId,
                       participants |->
                           [i \in 1..Len(sorted) |->
                               [address |-> sorted[i],
                                balance |-> IF i \in DOMAIN initialAllocations
                                            THEN initialAllocations[i].amount ELSE 0]],
                       nonce |-> 0, stateHash |-> <<>>, isOpen |-> TRUE,
                       totalDeposit |->
                           Sum([i \in DOMAIN initialAllocations |->
                                   initialAllocations[i].amount])]>>]

\* closeAppSession of ClearNodeService: signed and sent on the session's
\* socket, if there is one.
closeAppSessionFailure(n) ==
    IF ~n.messageSigner \/ ~n.connection.isAuthenticated THEN "Not authenticated"
    ELSE IF SendThrows(n) THEN "Failed to close app session"
    ELSE ""

closeAppSession(n) ==
    IF closeAppSessionFailure(n) = "" THEN Send(n, "close_app_session") ELSE n

\* StateChannelClient.closeChannel
clientCloseChannelFailure(c, n) ==
    IF c.currentChannel = <<>> \/ c.currentSession = <<>> \/ ~c.messageSigner
    THEN "No active channel or session"
    ELSE closeAppSessionFailure(n)

clientCloseChannel(c, n) ==
    IF clientCloseChannelFailure(c, n) # "" THEN c
    ELSE [c EXCEPT !.currentChannel[1].isOpen = FALSE,
                   !.currentSession[1].isActive = FALSE]

\* this.currentChannel?.isOpen || false
isChannelActive(c) == c.currentChannel # <<>> /\ c.currentChannel[1].isOpen

getCurrentChannel(c) == c.currentChannel

\* participants.find(p => p.address === address)?.balance || 0n
getParticipantBalance(c, address) ==
    IF c.currentChannel = <<>> THEN 0
    ELSE LET participants == c.currentChannel[1].participants
             found == {i \in DOMAIN participants : participants[i].address = address}
         IN  IF found = {} THEN 0 ELSE participants[Min(found)].balance

\* The stateUpdate object updateChannelState builds and sends.
stateUpdate(c, newBalances) ==
    [channelId |-> c.currentChannel[1].channelId,
     stateHash |-> generateStateHash(newBalances),
     nonce |-> c.currentChannel[1].nonce + 1,
     balances |-> newBalances]

updateChannelStateFailure(c, n) ==
    IF c.currentChannel = <<>> \/ ~c.messageSigner
    THEN "No active channel or message signer not set"
    ELSE sendStateUpdateFailure(n)

\* newBalances[i] || p.balance keeps the old balance for a missing or zero entry.
updateChannelState(c, n, newBalances) ==
    LET error == updateChannelStateFailure(c, n)
    IN  IF error # "" THEN c
        ELSE [c EXCEPT
                !.currentChannel[1].nonce = @ + 1,
                !.currentChannel[1].stateHash = generateStateHash(newBalances),
                !.currentChannel[1].participants =
                    [i \in DOMAIN @ |->
                        [@[i] EXCEPT !.balance =
                            IF i \in DOMAIN newBalances /\ newBalances[i] # 0
                            THEN newBalances[i] ELSE @]]]

\* The handler registered for "state_update": BigInt(balances[i] || 0).
handleStateUpdate(c, stateData) ==
    IF c.currentChannel = <<>> THEN c
    ELSE [c EXCEPT
            !.currentChannel[1].nonce = stateData.nonce,
            !.currentChannel[1].participants =
                [i \in DOMAIN @ |->
                    [@[i] EXCEPT !.balance =
                        IF i \in DOMAIN stateData.balances
                        THEN stateData.balances[i] ELSE 0]]]

\* StateChannelClient.disconnect
clientDisconnect(c) == [c EXCEPT !.currentChannel = <<>>]

----------------------------------------------------------------------------
(* The calls of the application and the updates the relay passes on *)

Participants == {<<"a1", "a2">>, <<"a2", "a1">>}

\* One allocation per participant, in the order of the participants.
Amount == [a \in Address |-> IF a = "a1" THEN 10 ELSE 20]

Allocations(participants) ==
    [i \in 1..Len(participants) |->
        [participant |-> participants[i], asset |-> "usdc",
         amount |-> Amount[participants[i]]]]

NewBalances == {<<-5, 5>>, <<0, 7>>}

\* What a state update received for the channel may carry: any nonce, with
\* or without the valid signatures of all participants.
StateData == [balances : {<<1, -1>>}, nonce : 0..MaxUpdates, signed : BOOLEAN]

SetMessageSigner ==
    /\ stateChannelClient' = setMessageSigner(stateChannelClient)
    /\ UNCHANGED <<contractVars, clearNodeService, expenses, yellowNetworkAdapter>>

CreateChannel(participants) ==
    /\ stateChannelClient' =
          createChannel(stateChannelClient, clearNodeService, participants,
                        Allocations(participants))
    /\ UNCHANGED <<contractVars, clearNodeService, expenses, yellowNetworkAdapter>>

UpdateChannelState(newBalances) ==
    /\ stateChannelClient.currentChannel # <<>>
          => stateChannelClient.currentChannel[1].nonce < MaxUpdates
    /\ stateChannelClient' =
          updateChannelState(stateChannelClient, clearNodeService, newBalances)
    /\ clearNodeService' =
          IF updateChannelStateFailure(stateChannelClient, clearNodeService) = ""
          THEN sendStateUpdate(clearNodeService,
                               stateUpdate(stateChannelClient, newBalances))
          ELSE clearNodeService
    /\ UNCHANGED <<contractVars, expenses, yellowNetworkAdapter>>

StateUpdate(stateData) ==
    /\ stateChannelClient' = handleStateUpdate(stateChannelClient, stateData)
    /\ UNCHANGED <<contractVars, clearNodeService, expenses, yellowNetworkAdapter>>

ClientCloseChannel ==
    /\ stateChannelClient' = clientCloseChannel(stateChannelClient, clearNodeService)
    /\ clearNodeService' =
          IF clientCloseChannelFailure(stateChannelClient, clearNodeService) = ""
          THEN closeAppSession(clearNodeService)
          ELSE clearNodeService
    /\ UNCHANGED <<contractVars, expenses, yellowNetworkAdapter>>

ClientDisconnect ==
    /\ stateChannelClient' = clientDisconnect(stateChannelClient)
    /\ clearNodeService' = disconnect(clearNodeService)
    /\ UNCHANGED <<contractVars, expenses, yellowNetworkAdapter>>

\* The session under the client connects, authenticates and fails, for a
\* bounded number of callbacks.
InSession == clearNodeService.events < MaxSessionEvents

ClientNext ==
    \/ InSession /\ Connect
    \/ InSession /\ \E s \in Sockets : SocketOpens(s)
    \/ InSession /\ \E s \in Sockets : SocketFails(s)
    \/ InSession /\ \E s \in Sockets : \E success \in BOOLEAN :
          SocketMessage(s, Message("auth_verify", success, success, Null))
    \/ InSession /\ Authenticate
    \/ InSession /\ \E a \in 1..Len(clearNodeService.authentications) : AuthTimeout(a)
    \/ SetMessageSigner
    \/ \E participants \in Participants : CreateChannel(participants)
    \/ \E newBalances \in NewBalances : UpdateChannelState(newBalances)
    \/ \E stateData \in StateData : StateUpdate(stateData)
    \/ ClientCloseChannel
    \/ ClientDisconnect

ClientSpec == Init /\ [][ClientNext]_vars

----------------------------------------------------------------------------
(* BatchPayChannel, followed for the deposit of one channel: it is opened  *)
(* by one of its participants or by another address, closed and withdrawn  *)
(* from.                                                                   *)

Depositors == {"a1", "a3"}

DepositCalls == {OpenCall(s, <<"a1", "a2">>, 1, v) : s \in Depositors, v \in {1, 2}}

DepositNext ==
    \/ \E c \in DepositCalls :
          openChannel(c.sender, c.participants, c.chainId, c.value)
          /\ UNCHANGED <<clearNodeService, stateChannelClient, expenses, yellowNetworkAdapter>>
    \/ \E channelId \in ChannelIds : \E c \in Calls(channelId) :
          closeChannel(channelId, c.caller, c.state, c.sigs)
          /\ UNCHANGED <<clearNodeService, stateChannelClient, expenses, yellowNetworkAdapter>>
    \/ \E channelId \in ChannelIds, sender \in Address :
          forceClose(channelId, sender)
          /\ UNCHANGED <<clearNodeService, stateChannelClient, expenses, yellowNetworkAdapter>>
    \/ \E channelId \in ChannelIds, sender \in Address, received \in BOOLEAN :
          emergencyWithdraw(channelId, sender, received)
          /\ UNCHANGED <<clearNodeService, stateChannelClient, expenses, yellowNetworkAdapter>>
    \/ \E step \in TickSteps : Tick(step)
          /\ UNCHANGED <<clearNodeService, stateChannelClient, expenses, yellowNetworkAdapter>>

DepositSpec == Init /\ [][DepositNext]_vars

----------------------------------------------------------------------------
(***************************************************************************)
(* useExpenseStateChannel: the list of expenses kept over the client's     *)
(* channel.  Each callback is one action, from its guards to the end of    *)
(* its try block; isConnected and isAuthenticated are the flags of the     *)
(* session as useStateChannel copies them.  An amount is a decimal string, *)
(* held here as its value in thousandths of a unit; an address may be      *)
(* written in upper case.                                                  *)
(***************************************************************************)

toLowerCase(a) == IF a = "A1" THEN "a1" ELSE IF a = "A2" THEN "a2" ELSE a

sanitizeExpense(expense) ==
    [expense EXCEPT !.paidBy = toLowerCase(@),
                    !.participants = [i \in DOMAIN @ |-> toLowerCase(@[i])]]

\* No id twice, a positive amount, at least one participant.
validateExpenses(list) ==
    /\ \A i, j \in DOMAIN list : list[i].id = list[j].id => i = j
    /\ \A i \in DOMAIN list : list[i].amount > 0 /\ Len(list[i].participants) > 0

\* Array.prototype.indexOf, counted from 1; 0 where the code has -1.
indexOf(participants, a) ==
    IF a \in Range(participants)
    THEN Min({i \in DOMAIN participants : participants[i] = a}) ELSE 0

\* BigInt(Math.floor(parseFloat(expense.amount) * 100))
Cents(amount) == amount \div 10

\* One turn of expenses.forEach: the payer is credited the amount, every
\* listed sharer found in the channel is debited amount / number of sharers,
\* a BigInt division.
splitExpense(balances, participants, expense) ==
    LET paidByIndex == indexOf(participants, expense.paidBy)
        splitAmount == Cents(expense.amount) \div Len(expense.participants)
        shares(i) == Cardinality({j \in DOMAIN expense.participants :
                                     indexOf(participants, expense.participants[j]) = i})
    IN  [i \in DOMAIN balances |->
            balances[i]
            + (IF i = paidByIndex THEN Cents(expense.amount) ELSE 0)
            - splitAmount * shares(i)]

RECURSIVE forEachExpense(_, _, _)
forEachExpense(balances, participants, list) ==
    IF list = <<>> THEN balances
    ELSE forEachExpense(splitExpense(balances, participants, Head(list)),
                        participants, Tail(list))

calculateBalances(participants, list) ==
    forEachExpense([i \in 1..Len(participants) |-> 0], participants, list)

\* currentChannel.participants.map(p => p.address)
ChannelParticipants(c) ==
    [i \in DOMAIN c.currentChannel[1].participants |->
        c.currentChannel[1].participants[i].address]

\* The id of a new expense differs from every id in the list.
NewId(list) ==
    1 + Sum([i \in DOMAIN list |-> IF \A j \in DOMAIN list : list[j].id <= list[i].id
                                   THEN list[i].id ELSE 0])

filter(list, expenseId) == SelectSeq(list, LAMBDA expense : expense.id # expenseId)

\* await stateChannelClient.updateChannelState(newBalances, ...)
Propose(newBalances) ==
    /\ stateChannelClient' =
          updateChannelState(stateChannelClient, clearNodeService, newBalances)
    /\ clearNodeService' =
          IF updateChannelStateFailure(stateChannelClient, clearNodeService) = ""
          THEN sendStateUpdate(clearNodeService,
                               stateUpdate(stateChannelClient, newBalances))
          ELSE clearNodeService

Updatable ==
    stateChannelClient.currentChannel # <<>>
       => stateChannelClient.currentChannel[1].nonce < MaxUpdates

\* addExpense: the list is put back when the update throws.
AddExpense(expenseData) ==
    LET sanitizedExpense ==
            sanitizeExpense([id |-> NewId(expenses), amount |-> expenseData.amount,
                             paidBy |-> expenseData.paidBy,
                             participants |-> expenseData.participants])
        updatedExpenses == Append(expenses, sanitizedExpense)
    IN  /\ Updatable
        /\ Len(expenses) < MaxExpenses
        /\ IF \/ ~clearNodeService.connection.isConnected
              \/ ~clearNodeService.connection.isAuthenticated
              \/ stateChannelClient.currentChannel = <<>>
              \/ ~validateExpenses(<<sanitizedExpense>>)
              \/ updateChannelStateFailure(stateChannelClient, clearNodeService) # ""
           THEN UNCHANGED <<expenses, stateChannelClient, clearNodeService>>
           ELSE /\ expenses' = updatedExpenses
                /\ Propose(calculateBalances(ChannelParticipants(stateChannelClient),
                                             updatedExpenses))
        /\ UNCHANGED <<contractVars, yellowNetworkAdapter>>

\* removeExpense and clearExpenses set the list before they look for the
\* channel and do not put it back.
RemoveExpense(expenseId) ==
    LET updatedExpenses == filter(expenses, expenseId)
    IN  /\ Updatable
        /\ IF ~clearNodeService.connection.isAuthenticated
           THEN UNCHANGED <<expenses, stateChannelClient, clearNodeService>>
           ELSE /\ expenses' = updatedExpenses
                /\ IF stateChannelClient.currentChannel = <<>>
                   THEN UNCHANGED <<stateChannelClient, clearNodeService>>
                   ELSE Propose(calculateBalances(ChannelParticipants(stateChannelClient),
                                                  updatedExpenses))
        /\ UNCHANGED <<contractVars, yellowNetworkAdapter>>

ClearExpenses ==
    /\ Updatable
    /\ IF ~clearNodeService.connection.isAuthenticated
       THEN UNCHANGED <<expenses, stateChannelClient, clearNodeService>>
       ELSE /\ expenses' = <<>>
            /\ IF stateChannelClient.currentChannel = <<>>
               THEN UNCHANGED <<stateChannelClient, clearNodeService>>
               ELSE Propose([i \in DOMAIN ChannelParticipants(stateChannelClient) |-> 0])
    /\ UNCHANGED <<contractVars, yellowNetworkAdapter>>

\* The expenses a user enters: an amount of 0.03 or 1 (and 0, which is not
\* valid), paid by a member, shared by the two members or with a third
\* address.
ExpenseData ==
    [amount : {30, 1000}, paidBy : {"a1", "A2"},
     participants : {<<"a1", "a2">>, <<"a1", "a3">>}]
    \cup {[amount |-> 0, paidBy |-> "a1", participants |-> <<"a1", "a2">>]}

ExpenseNext ==
    \/ InSession /\ Connect
    \/ InSession /\ \E s \in Sockets : SocketOpens(s)
    \/ InSession /\ Authenticate
    \/ InSession /\ \E s \in Sockets : \E success \in BOOLEAN :
          SocketMessage(s, Message("auth_verify", success, success, Null))
    \/ SetMessageSigner
    \/ stateChannelClient.currentChannel = <<>> /\ CreateChannel(<<"a1", "a2">>)
    \/ \E expenseData \in ExpenseData : AddExpense(expenseData)
    \/ \E expenseId \in 1..MaxExpenses : RemoveExpense(expenseId)
    \/ ClearExpenses

ExpenseSpec == Init /\ [][ExpenseNext]_vars

----------------------------------------------------------------------------
(***************************************************************************)
(* YellowNetworkAdapter: swap intents and Yellow Network channels.  The    *)
(* storage is the state; the functions that create an intent and open or  *)
(* close a channel are one action each, and a reverted call leaves the     *)
(* storage as it was.                                                      *)
(* The adapter is not paused and the roles are those of the deployment.    *)
(***************************************************************************)

\* keccak256(abi.encodePacked(...)) over the arguments of createSwapIntent and
\* over those of openYellowChannel: the packed encodings are 240 bytes and
\* 32 * participants.length + 96 bytes long, so an intent id and a channel id
\* are never equal, and two ids of one kind are equal exactly when their
\* inputs are.
IntentIdOf(a, timestamp, number) == <<"intent", a, timestamp, number>>

YellowChannelIdOf(participants, initialLiquidity, timestamp, number) ==
    <<"channel", participants, initialLiquidity, timestamp, number>>

\* The value of a mapping at a key never written.
ZeroIntent ==
    [intentId |-> ZeroId, from |-> ZeroAddress, to |-> ZeroAddress, fromAmount |-> 0,
     fromToken |-> ZeroAddress, toToken |-> ZeroAddress,
     fromChainId |-> 0, toChainId |-> 0, timestamp |-> 0, status |-> "PENDING",
     yellowChannelId |-> ZeroId, settlementDeadline |-> 0]

ZeroYellowChannel ==
    [channelId |-> ZeroId, participants |-> <<>>, totalLiquidity |-> 0,
     liquidity |-> [a \in Address |-> 0], isActive |-> FALSE, lastUpdate |-> 0]

SwapIntent(y, intentId) ==
    IF intentId \in DOMAIN y.swapIntents THEN y.swapIntents[intentId] ELSE ZeroIntent

YellowChannel(y, channelId) ==
    IF channelId \in DOMAIN y.yellowChannels THEN y.yellowChannels[channelId]
    ELSE ZeroYellowChannel

onlyBroker(y, sender) == sender \in y.brokers

validIntent(y, intentId) == SwapIntent(y, intentId).intentId # ZeroId

AdapterCalled(y, op, id, error) ==
    [y EXCEPT !.last = [op |-> op, id |-> id, error |-> error]]

createSwapIntentFailure(y, sender, a) ==
    IF ~onlyBroker(y, sender) THEN "Not a broker"
    ELSE IF ~(a.from # ZeroAddress) THEN "Invalid from address"
    ELSE IF ~(a.to # ZeroAddress) THEN "Invalid to address"
    ELSE IF ~(a.fromAmount > 0) THEN "Invalid amount"
    ELSE IF ~(a.fromToken # ZeroAddress) THEN "Invalid from token"
    ELSE IF ~(a.toToken # ZeroAddress) THEN "Invalid to token"
    ELSE IF ~(a.fromChainId # a.toChainId) THEN "Same chain swap not supported"
    ELSE ""

createSwapIntent(y, sender, a) ==
    LET error == createSwapIntentFailure(y, sender, a)
        intentId == IntentIdOf(a, now, blockNumber)
        intent == [intentId |-> intentId, from |-> a.from, to |-> a.to,
                   fromAmount |-> a.fromAmount, fromToken |-> a.fromToken,
                   toToken |-> a.toToken, fromChainId |-> a.fromChainId,
                   toChainId |-> a.toChainId, timestamp |-> now, status |-> "PENDING",
                   yellowChannelId |-> ZeroId, settlementDeadline |-> 0]
    IN  IF error # "" THEN AdapterCalled(y, "createSwapIntent", ZeroId, error)
        ELSE AdapterCalled([y EXCEPT !.swapIntents = (intentId :> intent) @@ @,
                                     !.userIntents[a.from] = Append(@, intentId)],
                           "createSwapIntent", intentId, "")

openYellowChannelFailure(y, sender, participants, initialLiquidity) ==
    IF ~onlyBroker(y, sender) THEN "Not a broker"
    ELSE IF ~(Len(participants) >= 2) THEN "Need at least 2 participants"
    ELSE IF ~(initialLiquidity >= MIN_LIQUIDITY) THEN "Insufficient liquidity"
    ELSE ""

\* The participants are pushed onto the stored list, each with an equal share
\* of the liquidity (an integer division).
openYellowChannel(y, sender, participants, initialLiquidity) ==
    LET error == openYellowChannelFailure(y, sender, participants, initialLiquidity)
        channelId == YellowChannelIdOf(participants, initialLiquidity, now, blockNumber)
        channel == [YellowChannel(y, channelId) EXCEPT
                       !.channelId = channelId,
                       !.totalLiquidity = initialLiquidity,
                       !.isActive = TRUE,
                       !.lastUpdate = now,
                       !.participants = @ \o participants,
                       !.liquidity = [a \in Address |->
                                         IF a \in Range(participants)
                                         THEN initialLiquidity \div Len(participants)
                                         ELSE @[a]]]
    IN  IF error # "" THEN AdapterCalled(y, "openYellowChannel", ZeroId, error)
        ELSE AdapterCalled([y EXCEPT !.yellowChannels = (channelId :> channel) @@ @],
                           "openYellowChannel", channelId, "")

\* closeYellowChannel carries the modifier validIntent(channelId).
closeYellowChannelFailure(y, sender, channelId) ==
    IF ~onlyBroker(y, sender) THEN "Not a broker"
    ELSE IF ~validIntent(y, channelId) THEN "Invalid intent"
    ELSE IF ~YellowChannel(y, channelId).isActive THEN "Channel not active"
    ELSE ""

closeYellowChannel(y, sender, channelId, finalLiquidity) ==
    LET error == closeYellowChannelFailure(y, sender, channelId)
    IN  IF error # "" THEN AdapterCalled(y, "closeYellowChannel", channelId, error)
        ELSE AdapterCalled([y EXCEPT !.yellowChannels[channelId].isActive = FALSE,
                                     !.yellowChannels[channelId].totalLiquidity = finalLiquidity,
                                     !.yellowChannels[channelId].lastUpdate = now],
                           "closeYellowChannel", channelId, "")

----------------------------------------------------------------------------
(* The calls made to the adapter *)

\* createSwapIntent with well-formed arguments and with a defective one: the
\* amount (0) or the destination chain (the source chain).
IntentArguments ==
    {[from |-> "a2", to |-> "a3", fromAmount |-> v, fromToken |-> "pyusd",
      toToken |-> "usdc", fromChainId |-> 1, toChainId |-> c] :
        v \in {0, 1}, c \in {1, 2}}

IntentIds == DOMAIN yellowNetworkAdapter.swapIntents

\* An id no openYellowChannel call produces.
UnknownYellowId == YellowChannelIdOf(<<>>, 0, 0, 0)

YellowChannelIds == DOMAIN yellowNetworkAdapter.yellowChannels \cup {UnknownYellowId}

Liquidity == {MIN_LIQUIDITY - 1, MIN_LIQUIDITY}

\* The broker a1 and an account without a role.
AdapterCallers == {"a1", "a2"}

CreateSwapIntent(sender, a) ==
    /\ Len(yellowNetworkAdapter.userIntents[a.from]) < MaxIntents
    /\ yellowNetworkAdapter' = createSwapIntent(yellowNetworkAdapter, sender, a)
    /\ UNCHANGED <<contractVars, clearNodeService, stateChannelClient, expenses>>

OpenYellowChannel(sender, participants, initialLiquidity) ==
    /\ Len(YellowChannel(yellowNetworkAdapter,
                         YellowChannelIdOf(participants, initialLiquidity, now,
                                           blockNumber)).participants)
          + Len(participants) <= MaxPushed
    /\ yellowNetworkAdapter' =
          openYellowChannel(yellowNetworkAdapter, sender, participants, initialLiquidity)
    /\ UNCHANGED <<contractVars, clearNodeService, stateChannelClient, expenses>>

CloseYellowChannel(sender, channelId, finalLiquidity) ==
    /\ yellowNetworkAdapter' =
          closeYellowChannel(yellowNetworkAdapter, sender, channelId, finalLiquidity)
    /\ UNCHANGED <<contractVars, clearNodeService, stateChannelClient, expenses>>

YellowNext ==
    \/ \E sender \in AdapterCallers, a \in IntentArguments : CreateSwapIntent(sender, a)
    \/ \E sender \in AdapterCallers, participants \in {<<"a2">>, <<"a2", "a3">>},
          initialLiquidity \in Liquidity :
          OpenYellowChannel(sender, participants, initialLiquidity)
    \/ \E sender \in AdapterCallers, channelId \in YellowChannelIds \cup IntentIds,
          finalLiquidity \in {0, MIN_LIQUIDITY} :
          CloseYellowChannel(sender, channelId, finalLiquidity)
    \/ \E step \in TickSteps : Tick(step)
          /\ UNCHANGED <<clearNodeService, stateChannelClient, expenses, yellowNetworkAdapter>>

YellowSpec == Init /\ [][YellowNext]_vars

----------------------------------------------------------------------------
(* Properties *)

StateAccepting == {"updateState", "challengeState", "closeChannel"}

Lifecycle(channel) ==
    IF ~channel.isOpen THEN "Closed"
    ELSE IF channel.inDispute THEN "Disputed"
    ELSE "Open"

\* The channel the last call was about, as the call left it.
After == Channel(last.cid)

\* The addresses the last call's signatures recover to.
RecoveredSigners ==
    [i \in 1..Len(last.sigs) |-> recover(messageHash(last.cid, last.state), last.sigs[i])]

\* C1 as stated: every state accepted by updateState, challengeState or
\* closeChannel carries a nonce strictly greater than the channel's nonce.
C1_AcceptedNonceStrictlyGreater ==
    (last.ok /\ last.op \in StateAccepting) => last.state.nonce > last.pre.nonce

\* C1 as amended: a state accepted by updateState or challengeState carries a
\* nonce strictly greater than the channel's, a state accepted by closeChannel
\* one greater than or equal to it; the accepted nonce becomes the channel's,
\* forceClose and every rejected call leave the nonce as it was.
C1_AcceptedNonceOrder ==
    /\ (last.ok /\ last.op \in {"updateState", "challengeState"})
          => last.state.nonce > last.pre.nonce /\ After.nonce = last.state.nonce
    /\ (last.ok /\ last.op = "closeChannel")
          => last.state.nonce >= last.pre.nonce /\ After.nonce = last.state.nonce
    /\ (last.ok /\ last.op = "forceClose") => After.nonce = last.pre.nonce
    /\ (~last.ok /\ last.op \in StateAccepting \cup {"forceClose"})
          => After.nonce = last.pre.nonce

C1_Witness ==
    /\ last.ok /\ last.op = "challengeState"
    /\ last.pre.nonce = 1 /\ last.state.nonce = 2 /\ After.nonce = 2

\* C2: right after closeChannel has closed an undisputed Open channel with a
\* state of the channel's nonce n, a challengeState by a participant with a
\* state of nonce n + 1 signed by all participants is accepted and the channel
\* holds that state.
C2_ChallengeAfterCloseWins ==
    [][\A channelId \in DOMAIN channels : \A c \in Calls(channelId) :
          ( /\ last.op = "closeChannel" /\ last.ok /\ last.cid = channelId
            /\ Lifecycle(last.pre) = "Open"
            /\ last.state.nonce = last.pre.nonce
            /\ c.caller \in Range(channels[channelId].participants)
            /\ c.state.channelId = channelId
            /\ c.state.nonce = channels[channelId].nonce + 1
            /\ c.sigs = AllSigned(channelId, c.state)
            /\ challengeState(channelId, c.caller, c.state, c.sigs) )
          => /\ last'.ok
             /\ channels'[channelId].nonce = c.state.nonce
             /\ channels'[channelId].stateHash = c.state.stateHash]_vars

\* C3: every state accepted by updateState, challengeState or closeChannel has
\* balances that sum to zero.
C3_AcceptedBalancesSumToZero ==
    (last.ok /\ last.op \in StateAccepting) => Sum(last.state.balances) = 0

\* C4: a state is accepted by updateState, challengeState or closeChannel only
\* with as many signatures as participants whose signers are the participants,
\* each once; a set with a signature removed, a signer twice or an outside
\* signer is refused by all three, and a refused call leaves the channel as
\* it was.
C4_SignatureCompleteness ==
    /\ (last.ok /\ last.op \in StateAccepting)
          => /\ Len(last.sigs) = Len(last.pre.participants)
             /\ Range(RecoveredSigners) = Range(last.pre.participants)
             /\ \A i, j \in 1..Len(last.sigs) :
                    i # j => RecoveredSigners[i] # RecoveredSigners[j]
    /\ (~last.ok /\ last.op \in StateAccepting) => After = last.pre
    /\ \A channelId \in DOMAIN channels : \A c \in Calls(channelId) :
          c.sigs \in DefectiveSignatures(channelId, c.state)
            => /\ updateStateFailure(channelId, c.caller, c.state, c.sigs) # ""
               /\ challengeStateFailure(channelId, c.caller, c.state, c.sigs) # ""
               /\ closeChannelFailure(channelId, c.caller, c.state, c.sigs) # ""

C4_Witness ==
    /\ last.op = "closeChannel" /\ ~last.ok /\ last.error = "Invalid signatures"
    /\ Lifecycle(last.pre) = "Open" /\ After = last.pre

\* C5: a channel that is Closed keeps its lifecycle, nonce and stateHash in
\* every step.
C5_ClosedIsFinal ==
    [][\A channelId \in DOMAIN channels :
          ~channels[channelId].isOpen
            => /\ ~channels'[channelId].isOpen
               /\ channels'[channelId].nonce = channels[channelId].nonce
               /\ channels'[channelId].stateHash = channels[channelId].stateHash]_vars

\* C6: updateState and challengeState refuse every state whose nonce is not
\* greater than the channel's, whatever its signatures, and a refused call
\* leaves nonce, stateHash, lifecycle and disputeDeadline as they were.
C6_StaleNonceRejected ==
    /\ (last.ok /\ last.op \in {"updateState", "challengeState"})
          => last.state.nonce > last.pre.nonce
    /\ (~last.ok /\ last.op \in {"updateState", "challengeState"})
          => /\ After.nonce = last.pre.nonce
             /\ After.stateHash = last.pre.stateHash
             /\ Lifecycle(After) = Lifecycle(last.pre)
             /\ After.disputeDeadline = last.pre.disputeDeadline
    /\ \A channelId \in DOMAIN channels : \A c \in Calls(channelId) :
          c.state.nonce <= channels[channelId].nonce
            => /\ updateStateFailure(channelId, c.caller, c.state, c.sigs) # ""
               /\ challengeStateFailure(channelId, c.caller, c.state, c.sigs) # ""

C6_Witness ==
    /\ last.op = "challengeState" /\ ~last.ok
    /\ last.error = "Must provide higher nonce"
    /\ last.pre.nonce > 0 /\ After = last.pre

\* C7: a challengeState accepted on a Disputed channel is made before the
\* channel's disputeDeadline.
C7_ChallengeOnlyBeforeDeadline ==
    (last.ok /\ last.op = "challengeState" /\ Lifecycle(last.pre) = "Disputed")
      => last.time < last.pre.disputeDeadline

\* C8: closeChannel on a Disputed channel is refused while now < disputeDeadline
\* and leaves the channel as it was; it is accepted only at or after the
\* deadline.
C8_CloseWaitsForDisputeWindow ==
    /\ (last.ok /\ last.op = "closeChannel" /\ last.pre.inDispute)
          => last.time >= last.pre.disputeDeadline
    /\ (~last.ok /\ last.op = "closeChannel") => After = last.pre
    /\ \A channelId \in DOMAIN channels : \A c \in Calls(channelId) :
          (Lifecycle(channels[channelId]) = "Disputed"
             /\ now < channels[channelId].disputeDeadline)
            => closeChannelFailure(channelId, c.caller, c.state, c.sigs) # ""

C8_Witness ==
    /\ last.op = "closeChannel" /\ ~last.ok
    /\ last.error = "Dispute period not over"
    /\ Lifecycle(last.pre) = "Disputed" /\ last.time < last.pre.disputeDeadline
    /\ After = last.pre

\* C9: an accepted challengeState makes the submitted nonce and stateHash the
\* channel's, makes the channel Disputed and sets disputeDeadline to
\* DISPUTE_PERIOD after the time of the call, never earlier than it was.
C9_ChallengeSetsDeadline ==
    (last.ok /\ last.op = "challengeState")
      => /\ After.nonce = last.state.nonce
         /\ After.stateHash = last.state.stateHash
         /\ Lifecycle(After) = "Disputed"
         /\ After.disputeDeadline = last.time + DISPUTE_PERIOD
         /\ Lifecycle(last.pre) = "Disputed"
               => After.disputeDeadline >= last.pre.disputeDeadline

C9_Witness ==
    /\ last.ok /\ last.op = "challengeState"
    /\ Lifecycle(last.pre) = "Disputed"
    /\ After.disputeDeadline > last.pre.disputeDeadline

\* C10: updateState is accepted only on a channel that is Open and not
\* Disputed, is refused on every Disputed or Closed channel, and when accepted
\* changes nonce and stateHash and nothing else of the channel.
C10_UpdateStateFrame ==
    /\ (last.ok /\ last.op = "updateState")
          => /\ Lifecycle(last.pre) = "Open"
             /\ After = [last.pre EXCEPT !.nonce = last.state.nonce,
                                          !.stateHash = last.state.stateHash]
    /\ \A channelId \in DOMAIN channels : \A c \in Calls(channelId) :
          Lifecycle(channels[channelId]) # "Open"
            => updateStateFailure(channelId, c.caller, c.state, c.sigs) # ""

C10_Witness ==
    /\ last.ok /\ last.op = "updateState"
    /\ After.nonce > last.pre.nonce /\ After.stateHash # last.pre.stateHash
    /\ After.timeout = last.pre.timeout /\ Lifecycle(After) = "Open"

\* C11: forceClose by a participant is refused while now < timeout and accepted
\* once now >= timeout, on an Open, a Disputed and a Closed channel alike and
\* with no signatures; accepted, it makes the channel Closed and changes
\* nothing else of it (nonce and stateHash stay those last accepted); refused,
\* it leaves the channel as it was.
C11_ForceCloseAtTimeout ==
    /\ (last.ok /\ last.op = "forceClose")
          => /\ last.time >= last.pre.timeout
             /\ Lifecycle(After) = "Closed"
             /\ After = [last.pre EXCEPT !.isOpen = FALSE]
    /\ (~last.ok /\ last.op = "forceClose") => After = last.pre
    /\ \A channelId \in DOMAIN channels :
          \A sender \in Range(channels[channelId].participants) :
             (forceCloseFailure(channelId, sender) = "") <=> (now >= channels[channelId].timeout)

C11_Witness ==
    /\ last.ok /\ last.op = "forceClose"
    /\ Lifecycle(last.pre) = "Disputed" /\ last.pre.nonce = 1
    /\ last.time = last.pre.timeout
    /\ Lifecycle(After) = "Closed" /\ After.nonce = 1

\* C12: openChannel refuses a participant list of fewer than MIN_PARTICIPANTS
\* or more than MAX_PARTICIPANTS entries, one with an address twice or with
\* the zero address, and a zero deposit; every openChannel that returns leaves
\* a channel with nonce 0 that is Open, not Disputed.
C12_OpenChannelValidates ==
    /\ \A c \in OpenCalls :
          ( \/ Len(c.participants) < MIN_PARTICIPANTS
            \/ Len(c.participants) > MAX_PARTICIPANTS
            \/ ZeroAddress \in Range(c.participants)
            \/ Cardinality(Range(c.participants)) < Len(c.participants)
            \/ c.value = 0 )
            => openChannelFailure(c.sender, c.participants, c.chainId, c.value) # ""
    /\ (last.ok /\ last.op = "openChannel")
          => After.nonce = 0 /\ Lifecycle(After) = "Open"

\* C13: every openChannel that returns creates a channel under an id that no
\* channel had before, so it overwrites no stored channel record.
C13_ChannelIdsNeverReused ==
    (last.ok /\ last.op = "openChannel") => last.pre = ZeroChannel

\* C14: a state that updateState refuses for its nonce ("Nonce must increase") is
\* refused by updateState, with the same signatures, after every step that
\* follows.
C14_StaleRejectionIsStable ==
    [][\A channelId \in DOMAIN channels : \A c \in Calls(channelId) :
          updateStateFailure(channelId, c.caller, c.state, c.sigs) = "Nonce must increase"
            => updateStateFailure(channelId, c.caller, c.state, c.sigs)' # ""]_vars

\* The fully signed states of nonce n that the participants of a channel may
\* submit, one call per participant and stateHash.
Competing(channelId, n) ==
    LET participants == Channel(channelId).participants
    IN  {Call(sender, st, AllSigned(channelId, st)) :
            sender \in Range(participants),
            st \in {ChannelState(channelId, h, n, Settled(Len(participants))) :
                       h \in StateHashes}}

\* C15: of two fully signed states of the same nonce N above the channel's,
\* submitted to updateState by participants, the one executed first is
\* accepted and makes its stateHash and N the channel's; every other state of
\* nonce N, whoever submits it, is then refused for its nonce.
C15_SameNonceFirstWins ==
    (last.ok /\ last.op = "updateState")
      => /\ last.state.nonce > last.pre.nonce
         /\ After.nonce = last.state.nonce
         /\ After.stateHash = last.state.stateHash
         /\ \A c \in Competing(last.cid, last.state.nonce) :
                updateStateFailure(last.cid, c.caller, c.state, c.sigs) = "Nonce must increase"

C15_Witness ==
    /\ last.ok /\ last.op = "updateState"
    /\ last.pre.nonce = 0 /\ last.state.nonce = 1 /\ last.state.stateHash = "h2"
    /\ After.stateHash = "h2"
    /\ \E c \in Competing(last.cid, 1) :
          /\ c.state.stateHash = "h1" /\ c.caller # last.caller
          /\ updateStateFailure(last.cid, c.caller, c.state, c.sigs) = "Nonce must increase"

\* The deposits recorded for the participants of a channel, in their order.
ParticipantDeposits(channel) ==
    [i \in 1..Len(channel.participants) |-> channel.deposits[channel.participants[i]]]

\* C16: in every state, the totalDeposit of every channel is the sum of the
\* deposits recorded for its participants.
C16_TotalDepositIsSum ==
    \A channelId \in DOMAIN channels :
       channels[channelId].totalDeposit = Sum(ParticipantDeposits(channels[channelId]))

Authenticated(n) ==
    n.connectionState = "authenticated" /\ n.connection.isAuthenticated

\* The relay's confirmation of an authentication arrives on some socket.
Confirmation ==
    \E s \in Sockets : \E message \in Messages(s) :
       /\ message.method \in {"auth_verify", "auth_success"}
       /\ message.success
       /\ SocketMessage(s, message)

\* C17: connectionState becomes "authenticated", isAuthenticated becomes true
\* and the promise of an authenticate() call resolves only in the step that
\* handles a relay message auth_verify / auth_success not marked unsuccessful;
\* when the authentication timeout of a call fires, the call's promise is
\* rejected unless it had been settled before, and the session is not
\* Authenticated after it.
C17_AuthenticatedOnlyByConfirmation ==
    [][/\ ( \/ /\ clearNodeService'.connectionState = "authenticated"
                /\ clearNodeService.connectionState # "authenticated"
             \/ /\ clearNodeService'.connection.isAuthenticated
                /\ ~clearNodeService.connection.isAuthenticated
             \/ \E a \in 1..Len(clearNodeService.authentications) :
                   /\ clearNodeService'.authentications[a].promise = "resolved"
                   /\ clearNodeService.authentications[a].promise # "resolved" )
          => Confirmation
       /\ \A a \in 1..Len(clearNodeService.authentications) :
             AuthTimeout(a)
               => /\ ~Authenticated(clearNodeService')
                  /\ clearNodeService'.authentications[a].promise =
                        IF clearNodeService.authentications[a].promise = "pending"
                        THEN "rejected"
                        ELSE clearNodeService.authentications[a].promise]_vars

\* One authenticate() call has timed out with no answer from the relay, a
\* later one was confirmed.
C17_Witness ==
    /\ Len(clearNodeService.authentications) = 2
    /\ clearNodeService.authentications[1].promise = "rejected"
    /\ ~clearNodeService.authentications[1].timeout
    /\ clearNodeService.authentications[2].promise = "resolved"
    /\ Authenticated(clearNodeService)

\* The calls a request call r awaits its response of.
Pending(n) == {r \in 1..Len(n.requests) : n.requests[r].promise = "pending"}

\* C18: when the socket a pending request was sent on closes or fails, or
\* disconnect() is called, the request's promise is settled and no handler
\* of a request stays registered.
C18_PendingRequestsFailOnReset ==
    [][\A r \in Pending(clearNodeService) :
          ( \/ \E s \in Sockets, code \in {1000, 1006} :
                  s = clearNodeService.requests[r].socket /\ SocketCloses(s, code)
            \/ \E s \in Sockets :
                  s = clearNodeService.requests[r].socket /\ SocketFails(s)
            \/ Disconnect /\ clearNodeService' # clearNodeService )
          => /\ r \notin Pending(clearNodeService')
             /\ DOMAIN clearNodeService'.messageHandlers \subseteq {"auth"}]_vars

\* C19: a request call is resolved with the response to itself and no other,
\* and it is resolved once the relay's response to it has been handled.
C19_RequestsResolveIndependently ==
    \A r \in 1..Len(clearNodeService.requests) :
       /\ clearNodeService.requests[r].result \in {Null, r}
       /\ clearNodeService.requests[r].answered
             => clearNodeService.requests[r].promise = "resolved"

\* The connect / reconnect sequences in flight: the reconnect timers pending
\* and the sockets whose connect() is still awaiting the open.
InFlight(n) ==
    Cardinality({t \in 1..Len(n.reconnectTimers) : n.reconnectTimers[t]})
    + Cardinality({s \in 1..Len(n.sockets) :
                     /\ n.sockets[s].readyState = "CONNECTING"
                     /\ n.sockets[s].promise = "pending"})

\* C20: a reconnect trigger (a socket failing or closing, a reconnect timer
\* firing) never starts a sequence beside one that is in flight: after it at
\* most one sequence is in flight, or no more than were before it.
C20_OneSequenceInFlight ==
    [][( \/ \E s \in Sockets : SocketFails(s)
         \/ \E s \in Sockets, code \in {1000, 1006} : SocketCloses(s, code)
         \/ \E t \in 1..Len(clearNodeService.reconnectTimers) : ReconnectTimer(t) )
        => \/ InFlight(clearNodeService') <= 1
           \/ InFlight(clearNodeService') <= InFlight(clearNodeService)]_vars

\* handleReconnect(n) finds the attempts used up: it is not already
\* reconnecting and reconnectAttempts has reached config.retryAttempts.
Exhausted(n) == ~n.isReconnecting /\ n.reconnectAttempts >= retryAttempts

Closed(s) == [clearNodeService EXCEPT !.sockets[s].readyState = "CLOSED"]

TimerPending(n) == \E t \in 1..Len(n.reconnectTimers) : n.reconnectTimers[t]

\* C21: reconnection is bounded and terminates: once an unexpected close finds
\* the configured number of attempts used up, the session is left disconnected
\* with no reconnect timer pending.
C21_ReconnectionTerminates ==
    [][\A s \in Sockets :
          (\/ SocketFails(s) /\ Exhausted(onerror(Closed(s), s))
           \/ SocketCloses(s, 1006) /\ Exhausted(clearNodeService))
          => /\ clearNodeService'.connectionState = "disconnected"
             /\ ~TimerPending(clearNodeService')]_vars

\* The session as disconnect() leaves it until connect() makes the next socket.
CleanlyDisconnected(n) == n.ws = Null

\* C22: after a clean disconnect(), in whatever phase it was called, no
\* reconnect is scheduled and no socket is opened until the caller calls
\* connect() again.
C22_NoReconnectAfterDisconnect ==
    [][CleanlyDisconnected(clearNodeService) /\ ~Connect
          => /\ Len(clearNodeService'.reconnectTimers) = Len(clearNodeService.reconnectTimers)
             /\ Len(clearNodeService'.sockets) = Len(clearNodeService.sockets)]_vars

\* The handler registered under "auth" is the one of connectWithJWT.
Resuming(n) ==
    "auth" \in DOMAIN n.messageHandlers /\ n.messageHandlers["auth"] = JWTHandler

FullAuthentication(n) ==
    /\ n.connectionState = "authenticating"
    /\ "auth" \in DOMAIN n.messageHandlers
    /\ n.messageHandlers["auth"].of = "authenticate"

\* C24: when the relay rejects a token resumption, the session falls back to
\* the full challenge/response authentication and the resumption handler is
\* no longer registered.
C24_FallsBackToFullAuthentication ==
    [][\A s \in Sockets :
          SocketMessage(s, Message("auth_verify", FALSE, FALSE, Null))
             /\ Resuming(clearNodeService)
          => FullAuthentication(clearNodeService')]_vars

\* The connect() attempt that made socket s has timed out: its promise was
\* rejected while the socket was still connecting.
TimedOut(n, s) ==
    n.sockets[s].promise = "rejected" /\ n.sockets[s].readyState = "CONNECTING"

\* C25: a connection timeout ends its attempt.  The timeout of the current
\* attempt rejects connect() and leaves the session disconnected without
\* making another socket; a late open of a timed-out attempt's socket does not
\* make the session connected; the timeout of an earlier attempt does not
\* change the state of a later one.
C25_ConnectTimeoutIsFinal ==
    [][\A s \in Sockets :
          /\ (/\ ConnectTimeout(s)
              /\ clearNodeService.ws = s
              /\ clearNodeService.connectionState = "connecting")
             => /\ clearNodeService'.connectionState = "disconnected"
                /\ clearNodeService'.sockets[s].promise = "rejected"
                /\ Len(clearNodeService'.sockets) = Len(clearNodeService.sockets)
          /\ (SocketOpens(s) /\ TimedOut(clearNodeService, s))
             => clearNodeService'.connectionState # "connected"
          /\ (ConnectTimeout(s) /\ clearNodeService.ws # s)
             => clearNodeService'.connectionState = clearNodeService.connectionState]_vars

\* C26: a message the relay can send on an open socket goes to the handler of
\* its own request if that handler is registered, otherwise to the handler
\* registered for its method (the authentication handler for the messages of
\* the authentication exchange), otherwise to none.
C26_RoutedToOwnHandler ==
    \A s \in Sockets :
       clearNodeService.sockets[s].readyState = "OPEN" =>
          \A message \in Messages(s) :
             LET handlers == clearNodeService.messageHandlers
                 own == {k \in DOMAIN handlers :
                           message.id # Null /\ handlers[k] = RequestHandler(message.id)}
                 key == IF message.method \in {"auth_challenge", "auth_verify", "error"}
                        THEN "auth" ELSE message.method
             IN  Handler(clearNodeService, message) =
                    IF own # {} THEN handlers[CHOOSE k \in own : TRUE]
                    ELSE IF key \in DOMAIN handlers THEN handlers[key]
                    ELSE NoHandler

\* C27: timers are cancelled on clean shutdown and on supersession: from
\* disconnect() until the next connect() makes a socket no callback moves
\* connectionState away from "disconnected", and a connect() attempt leaves no
\* reconnect timer pending.
C27_TimersCancelled ==
    [][/\ CleanlyDisconnected(clearNodeService')
          => clearNodeService'.connectionState = "disconnected"
       /\ Connect => ~TimerPending(clearNodeService')]_vars

\* C28: updateChannelState commits the proposed state only after the
\* signatures of all participants have been received for it.  The call itself
\* receives nothing from the other participants, so when it returns
\* getCurrentChannel still gives the state it gave before.
C28_ProposalProvisionalUntilSigned ==
    [][\A newBalances \in NewBalances :
          UpdateChannelState(newBalances)
          => getCurrentChannel(stateChannelClient') = getCurrentChannel(stateChannelClient)]_vars

\* C29: in every state, an updateChannelState call fails when there is no
\* local channel, no signer, or the session is not authenticated; a call that
\* fails leaves the local channel as it was; a call that succeeds sends a
\* state with nonce = current + 1 and advances the local nonce by exactly 1.
C29_UpdateChannelStateGuarded ==
    \A newBalances \in NewBalances :
       LET c == stateChannelClient
           n == clearNodeService
           failed == updateChannelStateFailure(c, n) # ""
           returned == updateChannelState(c, n, newBalances)
           session == sendStateUpdate(n, stateUpdate(c, newBalances))
       IN  /\ c.currentChannel = <<>> \/ ~c.messageSigner \/ ~Authenticated(n) => failed
           /\ failed => getCurrentChannel(returned) = getCurrentChannel(c)
           /\ ~failed =>
                 /\ returned.currentChannel[1].nonce = c.currentChannel[1].nonce + 1
                 /\ Delivers(n)
                 /\ \E sent \in session.sockets[session.ws].updates :
                       /\ sent = stateUpdate(c, newBalances)
                       /\ sent.nonce = c.currentChannel[1].nonce + 1

\* C30: a state update received for the local channel is adopted only if its
\* nonce is strictly greater than the local nonce and it carries valid
\* signatures of all participants; otherwise the local state is unchanged, so
\* the local nonce never decreases.
C30_IncomingUpdateVerified ==
    [][\A stateData \in StateData :
          StateUpdate(stateData) /\ stateChannelClient.currentChannel # <<>>
          => /\ stateChannelClient'.currentChannel[1].nonce
                   >= stateChannelClient.currentChannel[1].nonce
             /\ \/ getCurrentChannel(stateChannelClient') = getCurrentChannel(stateChannelClient)
                \/ /\ stateData.nonce > stateChannelClient.currentChannel[1].nonce
                   /\ stateData.signed]_vars

\* C31: every state the client proposes to the relay has balances that sum to
\* zero: the balances calculateBalances computes from the list of expenses sum
\* to 0, and so do the balances of every update sent.
C31_BalancesSumToZero ==
    /\ \A s \in Sockets : \A sent \in clearNodeService.sockets[s].updates :
          Sum(sent.balances) = 0
    /\ stateChannelClient.currentChannel # <<>>
          => Sum(calculateBalances(ChannelParticipants(stateChannelClient), expenses)) = 0

\* C32: after a successful updateChannelState(newBalances) with one entry per
\* participant, the local channel has nonce = previous nonce + 1 and, at every
\* index i, the balance newBalances[i], for every value of it including 0.
C32_UpdateReflected ==
    [][\A newBalances \in NewBalances :
          /\ UpdateChannelState(newBalances)
          /\ updateChannelStateFailure(stateChannelClient, clearNodeService) = ""
          => LET before == stateChannelClient.currentChannel[1]
                 after == getCurrentChannel(stateChannelClient')[1]
             IN  /\ after.nonce = before.nonce + 1
                 /\ \A i \in DOMAIN after.participants :
                       after.participants[i].balance = newBalances[i]]_vars

\* C33: once challengeState has succeeded on a channel, inDispute is never
\* cleared and the channel never returns to the undisputed Open state; every
\* later updateState on it is rejected, and the only calls that still change
\* a disputed channel are challengeState, closeChannel and forceClose.
C33_DisputeIsPermanent ==
    [][\A id \in DOMAIN channels :
          channels[id].inDispute
          => /\ channels'[id].inDispute
             /\ Lifecycle(channels'[id]) # "Open"
             /\ last'.op = "updateState" /\ last'.cid = id => ~last'.ok
             /\ Lifecycle(channels[id]) = "Disputed" /\ channels'[id] # channels[id]
                   => last'.op \in {"challengeState", "closeChannel", "forceClose"}]_vars

\* C34: connectionState and the status flags agree in every state: the state
\* is "authenticated" exactly when isAuthenticated is true, it is one of
\* "connected", "authenticating", "authenticated" exactly when isConnected is
\* true, and in those three states the socket reference is set and open.
C34_StateAndFlagsAgree ==
    LET n == clearNodeService
        up == n.connectionState \in {"connected", "authenticating", "authenticated"}
    IN  /\ n.connectionState = "authenticated" <=> n.connection.isAuthenticated
        /\ up <=> n.connection.isConnected
        /\ up => n.ws # Null /\ n.sockets[n.ws].readyState = "OPEN"

\* Socket s has been replaced: the session's socket is a later one.
Superseded(n, s) == n.ws # Null /\ s < n.ws

\* C35: a late close or error event of a superseded socket does not change
\* connectionState or the status flags, does not stop the heartbeat of the
\* new connection and does not trigger a reconnect.
C35_SupersededSocketIgnored ==
    [][\A s \in Sockets :
          /\ Superseded(clearNodeService, s)
          /\ SocketFails(s) \/ \E code \in {1000, 1006} : SocketCloses(s, code)
          => /\ clearNodeService'.connectionState = clearNodeService.connectionState
             /\ clearNodeService'.connection = clearNodeService.connection
             /\ clearNodeService'.heartbeatInterval = clearNodeService.heartbeatInterval
             /\ clearNodeService'.reconnectTimers = clearNodeService.reconnectTimers
             /\ clearNodeService'.reconnectAttempts = clearNodeService.reconnectAttempts]_vars

\* C36: after a channel is Closed, the address whose payment is recorded as
\* its deposit can withdraw that amount through emergencyWithdraw, whether or
\* not the address is one of the channel's participants.
C36_DepositorCanWithdraw ==
    \A channelId \in DOMAIN channels : \A depositor \in Address :
       /\ Lifecycle(channels[channelId]) = "Closed"
       /\ channels[channelId].deposits[depositor] > 0
       => /\ emergencyWithdrawFailure(channelId, depositor, TRUE) = ""
          /\ emergencyWithdrawEffect(channels[channelId], depositor).deposits[depositor] = 0

\* The local channel has been closed by closeChannel().
ClosedLocally(c) == c.currentChannel # <<>> /\ ~c.currentChannel[1].isOpen

\* C37: after the client's closeChannel() has succeeded, isChannelActive() is
\* false, and every updateChannelState or closeChannel call on that channel is
\* rejected, sends nothing to the relay and leaves the local nonce, stateHash
\* and balances as they are.
C37_ClosedChannelRejectsCalls ==
    LET c == stateChannelClient
        n == clearNodeService
    IN  ClosedLocally(c)
        => /\ ~isChannelActive(c)
           /\ clientCloseChannelFailure(c, n) # ""
           /\ \A newBalances \in NewBalances :
                 /\ updateChannelStateFailure(c, n) # ""
                 /\ getCurrentChannel(updateChannelState(c, n, newBalances))
                       = getCurrentChannel(c)

\* C38: after createChannel(participants, allocations), where allocations[i]
\* belongs to participants[i], getParticipantBalance(participants[i]) equals
\* allocations[i].amount, for every input order of the participants, and the
\* caller's participants array, which the session keeps, is not reordered.
C38_BalanceIsOwnAllocation ==
    \A participants \in Participants :
       LET c == stateChannelClient
           n == clearNodeService
           allocations == Allocations(participants)
           returned == createChannel(c, n, participants, allocations)
       IN  createChannelFailure(c, n) = ""
           => /\ \A i \in DOMAIN participants :
                    getParticipantBalance(returned, participants[i]) = allocations[i].amount
              /\ returned.currentSession[1].participants = participants

\* C39: closeYellowChannel(channelId, finalLiquidity) called by a broker on an
\* active channel created by openYellowChannel succeeds, sets the channel
\* inactive and records finalLiquidity; it is rejected only for a channel
\* that does not exist or is already inactive.
C39_BrokerClosesActiveChannel ==
    LET y == yellowNetworkAdapter
    IN  \A channelId \in YellowChannelIds : \A sender \in y.brokers :
           \A finalLiquidity \in {0, MIN_LIQUIDITY} :
              LET closed == closeYellowChannel(y, sender, channelId, finalLiquidity)
              IN  IF YellowChannel(y, channelId).isActive
                  THEN /\ closeYellowChannelFailure(y, sender, channelId) = ""
                       /\ ~YellowChannel(closed, channelId).isActive
                       /\ YellowChannel(closed, channelId).totalLiquidity = finalLiquidity
                  ELSE /\ closeYellowChannelFailure(y, sender, channelId) # ""
                       /\ closed.yellowChannels = y.yellowChannels

====
